---- MODULE Spec2Model ----
(***************************************************************************)
(* A model of the Gladier client (src/gladier/client.py) and of its flow   *)
(* modifiers (src/gladier/utils/flow_modifiers.py).                        *)
(*                                                                         *)
(* Python dicts are TLA+ functions whose DOMAIN is the set of keys that    *)
(* are present.  Every handler is an operator that yields the SET of its   *)
(* possible outcomes, one per combination of answers of the remote         *)
(* services it reaches; an action picks one outcome.                       *)
(***************************************************************************)
EXTENDS Integers, Sequences, FiniteSets, TLC

VARIABLES
    tools,              \* self.tools: the configured tools, in order
    flow_definition,    \* self.flow_definition
    auto_login,         \* self.auto_login
    auto_registration,  \* self.auto_registration
    authorizers,        \* self.authorizers: the scopes an authorizer is held for
    cfg,                \* the private config section (registration records, overrides)
    pub,                \* the public config section
    last,               \* the last client operation: what it saw, called and answered
    mods,               \* the flow-modifier machine (FlowModifiers and its flow)
    poll                \* the call of progress at hand: its position and statuses

vars == <<tools, flow_definition, auto_login, auto_registration, authorizers,
          cfg, pub, last, mods, poll>>

-----------------------------------------------------------------------------
(* Bounds of the model.                                                    *)

MaxId == 2          \* the remote services hand out ids id1..idMaxId
MaxTools == 2       \* gladier_tools holds at most MaxTools tools

-----------------------------------------------------------------------------
(* Python values.                                                          *)

None == "None"

EmptyDict == <<>>

\* `not v` for a config value: None and the empty string are falsy
Falsy(v) == v \in {None, ""}

\* d.get(k)
Get(d, k) == IF k \in DOMAIN d THEN d[k] ELSE None

\* d[k] = v
Put(d, k, v) == [x \in DOMAIN d \cup {k} |-> IF x = k THEN v ELSE d[x]]

\* d.update(e)
Update(d, e) ==
    [x \in DOMAIN d \cup DOMAIN e |-> IF x \in DOMAIN e THEN e[x] ELSE d[x]]

\* s.startswith(p)
StartsWith(s, p) == Len(s) >= Len(p) /\ SubSeq(s, 1, Len(p)) = p

\* `needle in text` for two strings
Contains(text, needle) ==
    \E i \in 1..(Len(text) - Len(needle) + 1) :
        SubSeq(text, i, i + Len(needle) - 1) = needle

-----------------------------------------------------------------------------
(* Exceptions, remote answers and the log of calls.                        *)

Exc(type, code, msg, scopes) ==
    [type |-> type, code |-> code, msg |-> msg, scopes |-> scopes]

NoErr == Exc(None, None, None, {})

KeyError(k) == Exc("KeyError", None, k, {})

\* One entry of the call log: a call on a collaborator and its answer.
Call(name, arg, scopes, force, input, ok, val, status, err) ==
    [name |-> name, arg |-> arg, scopes |-> scopes, force |-> force,
     input |-> input, ok |-> ok, val |-> val, status |-> status, err |-> err]

\* The fresh ids a remote service may answer with
RemoteIds == {"id" \o ToString(n) : n \in 1..MaxId}

\* The scope the flows service generates for a deployed flow
ScopeOf(id) == "scope_" \o id

\* Failures of the funcX registration service
FuncxErrors == {Exc("FuncxResponseError", None, "register failed", {})}

\* Failures of the flows service on update_flow / deploy_flow.  'Not Found'
\* is the one code register_flow reacts to.
FlowApiErrors ==
    {Exc("GlobusAPIError", "Not Found", "{}", {}),
     Exc("GlobusAPIError", "Forbidden", "{}", {})}

NetworkErrors == {Exc("NetworkError", None, "connection reset", {})}

-----------------------------------------------------------------------------
(* Scopes and authorizers.                                                 *)

funcx_scope == "https://auth.globus.org/scopes/facd7ccc-c5f4-42aa-916b-a0e270e2c2a9/all"

search_scope == "urn:globus:auth:scope:search.api.globus.org:all"

\* globus_automate_client.flows_client.MANAGE_FLOWS_SCOPE
MANAGE_FLOWS_SCOPE == "manage_flows"

GLADIER_SCOPES == {search_scope, "openid", funcx_scope, MANAGE_FLOWS_SCOPE}

\* The scopes property: the basic scopes plus the stored flow scope, if any
scopes(c) ==
    IF Falsy(Get(c, "flow_scope")) THEN GLADIER_SCOPES
    ELSE GLADIER_SCOPES \cup {c["flow_scope"]}

missing_authorizers(c, auth) == {s \in scopes(c) : s \notin auth}

is_logged_in(c, auth) == missing_authorizers(c, auth) = {}

\* The funcx_client property indexes self.authorizers by each of its three
\* scopes, in this order; a scope without authorizer is a KeyError.
FuncxClientMissing(auth) ==
    IF funcx_scope \notin auth THEN funcx_scope
    ELSE IF search_scope \notin auth THEN search_scope
    ELSE IF "openid" \notin auth THEN "openid"
    ELSE None

\* The flows_client property indexes self.authorizers by the manage scope.
FlowsClientMissing(auth) ==
    IF MANAGE_FLOWS_SCOPE \notin auth THEN MANAGE_FLOWS_SCOPE ELSE None

-----------------------------------------------------------------------------
(* Functions, tools, checksums and the names of the config keys.           *)

\* A funcX function: its __name__ and its (serialized) body
Func(name, body) == [name |-> name, body |-> body]

\* A tool: its funcx_functions, its flow_input defaults, its required_input
Tool(funcs, flow_input, required_input) ==
    [funcx_functions |-> funcs, flow_input |-> flow_input,
     required_input |-> required_input]

\* sha256 of the serialized function: one digest per function
get_funcx_function_checksum(func) == "sha256(" \o func.name \o ":" \o func.body \o ")"

get_funcx_function_name(func) == func.name \o "_funcx_id"

get_funcx_function_checksum_name(func) == get_funcx_function_name(func) \o "_checksum"

\* sha256 of json.dumps(flow_definition)
get_flow_checksum(definition) == "sha256(" \o definition \o ")"

RECURSIVE AllFuncs(_)
\* The functions of a list of tools, in the order the loops visit them
AllFuncs(ts) ==
    IF ts = <<>> THEN <<>> ELSE Head(ts).funcx_functions \o AllFuncs(Tail(ts))

-----------------------------------------------------------------------------
(* Outcomes of a handler.                                                  *)

NoFlow == [action_id |-> None, status |-> None, description |-> None]

\* One way a handler can end: the config and authorizers it leaves, the
\* calls it made, the exception it raised (NoErr when it returned) and what
\* it returned (an id, a dict of ids, a dict of input, a run).
Out(c, auth, calls, exc, id, ids, flow) ==
    [cfg |-> c, auth |-> auth, calls |-> calls, exc |-> exc,
     id |-> id, ids |-> ids, flow |-> flow]

Returned(o) == o.exc = NoErr

-----------------------------------------------------------------------------
(* Registration of functions.                                              *)

RegisterFunctionCall(func, ok, val, err) ==
    Call("register_function", func.name \o ":" \o func.body, {}, FALSE, EmptyDict,
         ok, val, None, err)

\* register_funcx_function as it would be if the checksum were not written
register_funcx_function_IdOnly(c, auth, func) ==
    IF FuncxClientMissing(auth) # None
    THEN {Out(c, auth, <<>>, KeyError(FuncxClientMissing(auth)), None, EmptyDict, NoFlow)}
    ELSE {Out(Put(c, get_funcx_function_name(func), id),
              auth, <<RegisterFunctionCall(func, TRUE, id, NoErr)>>,
              NoErr, None, EmptyDict, NoFlow) : id \in RemoteIds}
         \cup
         {Out(c, auth, <<RegisterFunctionCall(func, FALSE, None, e)>>,
              e, None, EmptyDict, NoFlow) : e \in FuncxErrors}

\* register_funcx_function as it would be if the checksum were stored
\* before the remote call is made
register_funcx_function_ChecksumFirst(c, auth, func) ==
    LET first == Put(c, get_funcx_function_checksum_name(func),
                     get_funcx_function_checksum(func)) IN
    IF FuncxClientMissing(auth) # None
    THEN {Out(c, auth, <<>>, KeyError(FuncxClientMissing(auth)), None, EmptyDict, NoFlow)}
    ELSE {Out(Put(first, get_funcx_function_name(func), id),
              auth, <<RegisterFunctionCall(func, TRUE, id, NoErr)>>,
              NoErr, None, EmptyDict, NoFlow) : id \in RemoteIds}
         \cup
         {Out(first, auth, <<RegisterFunctionCall(func, FALSE, None, e)>>,
              e, None, EmptyDict, NoFlow) : e \in FuncxErrors}

register_funcx_function(c, auth, func) ==
    IF FuncxClientMissing(auth) # None
    THEN {Out(c, auth, <<>>, KeyError(FuncxClientMissing(auth)), None, EmptyDict, NoFlow)}
    ELSE {Out(Put(Put(c, get_funcx_function_name(func), id),
                  get_funcx_function_checksum_name(func),
                  get_funcx_function_checksum(func)),
              auth, <<RegisterFunctionCall(func, TRUE, id, NoErr)>>,
              NoErr, None, EmptyDict, NoFlow) : id \in RemoteIds}
         \cup
         {Out(c, auth, <<RegisterFunctionCall(func, FALSE, None, e)>>,
              e, None, EmptyDict, NoFlow) : e \in FuncxErrors}

\* FunctionRecordState as it would be if a stored checksum were never compared
FunctionRecordState_NoCompare(c, func) ==
    IF Falsy(Get(c, get_funcx_function_name(func)))
    THEN "RegistrationException"
    ELSE IF Falsy(Get(c, get_funcx_function_checksum_name(func)))
    THEN "RegistrationException"
    ELSE "valid"

\* FunctionRecordState as it would be without the test for a missing checksum
FunctionRecordState_NoMissingChecksum(c, func) ==
    IF Falsy(Get(c, get_funcx_function_name(func)))
    THEN "RegistrationException"
    ELSE IF Get(c, get_funcx_function_checksum_name(func)) # get_funcx_function_checksum(func)
    THEN "FunctionObsolete"
    ELSE "valid"

\* What lines 411-421 find for one function: "valid" or the exception raised
FunctionRecordState(c, func) ==
    IF Falsy(Get(c, get_funcx_function_name(func)))
    THEN "RegistrationException"
    ELSE IF Falsy(Get(c, get_funcx_function_checksum_name(func)))
    THEN "RegistrationException"
    ELSE IF c[get_funcx_function_checksum_name(func)] # get_funcx_function_checksum(func)
    THEN "FunctionObsolete"
    ELSE "valid"

RECURSIVE FuncxIdsFrom(_, _, _, _, _, _, _)
\* The loop of get_funcx_function_ids from function i on
FuncxIdsFrom(funcs, i, c, auth, autoreg, ids, calls) ==
    IF i > Len(funcs)
    THEN {Out(c, auth, calls, NoErr, None, ids, NoFlow)}
    ELSE LET func == funcs[i]
             fid_name == get_funcx_function_name(func)
             found == FunctionRecordState(c, func)
         IN  IF found = "valid"
             THEN FuncxIdsFrom(funcs, i + 1, c, auth, autoreg,
                               Put(ids, fid_name, c[fid_name]), calls)
             ELSE IF autoreg
             THEN UNION {
                    IF Returned(o)
                    THEN FuncxIdsFrom(funcs, i + 1, o.cfg, auth, autoreg,
                                      Put(ids, fid_name, o.cfg[fid_name]),
                                      calls \o o.calls)
                    ELSE {Out(o.cfg, auth, calls \o o.calls, o.exc, None, EmptyDict, NoFlow)}
                    : o \in register_funcx_function(c, auth, func)}
             ELSE {Out(c, auth, calls, Exc(found, None, fid_name, {}),
                       None, EmptyDict, NoFlow)}

get_funcx_function_ids(ts, c, auth, autoreg) ==
    FuncxIdsFrom(AllFuncs(ts), 1, c, auth, autoreg, EmptyDict, <<>>)

-----------------------------------------------------------------------------
(* Registration of the flow.                                               *)

FlowCall(name, flow_id, ok, val, err) ==
    Call(name, flow_id, {}, FALSE, EmptyDict, ok, val, None, err)

\* The deployment as it would be if a failed deploy_flow cleared the stored
\* flow record
DeployFlow_ClearsOnFailure(c, auth, definition, calls) ==
    IF FlowsClientMissing(auth) # None
    THEN {Out(c, auth, calls, KeyError(FlowsClientMissing(auth)), None, EmptyDict, NoFlow)}
    ELSE {Out(Put(Put(Put(c, "flow_id", id), "flow_scope", ScopeOf(id)),
                  "flow_checksum", get_flow_checksum(definition)),
              auth, Append(calls, FlowCall("deploy_flow", None, TRUE, id, NoErr)),
              NoErr, id, EmptyDict, NoFlow) : id \in RemoteIds}
         \cup
         {Out([k \in DOMAIN c \ {"flow_id", "flow_scope", "flow_checksum"} |-> c[k]],
              auth, Append(calls, FlowCall("deploy_flow", None, FALSE, None, e)),
              e, None, EmptyDict, NoFlow) : e \in FlowApiErrors \cup NetworkErrors}

\* Lines 500-509: deploy a new flow and store its id, scope and checksum
DeployFlow(c, auth, definition, calls) ==
    IF FlowsClientMissing(auth) # None
    THEN {Out(c, auth, calls, KeyError(FlowsClientMissing(auth)), None, EmptyDict, NoFlow)}
    ELSE {Out(Put(Put(Put(c, "flow_id", id), "flow_scope", ScopeOf(id)),
                  "flow_checksum", get_flow_checksum(definition)),
              auth, Append(calls, FlowCall("deploy_flow", None, TRUE, id, NoErr)),
              NoErr, id, EmptyDict, NoFlow) : id \in RemoteIds}
         \cup
         {Out(c, auth, Append(calls, FlowCall("deploy_flow", None, FALSE, None, e)),
              e, None, EmptyDict, NoFlow) : e \in FlowApiErrors \cup NetworkErrors}

\* register_flow as it would be if any GlobusAPIError of update_flow led to
\* a new deployment
register_flow_DeployOnAnyApiError(c, auth, definition) ==
    LET flow_id == Get(c, "flow_id") IN
    IF ~Falsy(flow_id)
    THEN IF FlowsClientMissing(auth) # None
         THEN {Out(c, auth, <<>>, KeyError(FlowsClientMissing(auth)), None, EmptyDict, NoFlow)}
         ELSE {Out(Put(c, "flow_checksum", get_flow_checksum(definition)), auth,
                   <<FlowCall("update_flow", flow_id, TRUE, None, NoErr)>>,
                   NoErr, flow_id, EmptyDict, NoFlow)}
              \cup
              UNION {
                 IF e.type = "GlobusAPIError"
                 THEN DeployFlow(c, auth, definition,
                                 <<FlowCall("update_flow", flow_id, FALSE, None, e)>>)
                 ELSE {Out(c, auth, <<FlowCall("update_flow", flow_id, FALSE, None, e)>>,
                           e, None, EmptyDict, NoFlow)}
                 : e \in FlowApiErrors \cup NetworkErrors}
    ELSE IF flow_id = None
    THEN DeployFlow(c, auth, definition, <<>>)
    ELSE {Out(c, auth, <<>>, NoErr, flow_id, EmptyDict, NoFlow)}

register_flow(c, auth, definition) ==
    LET flow_id == Get(c, "flow_id") IN
    IF ~Falsy(flow_id)
    THEN IF FlowsClientMissing(auth) # None
         THEN {Out(c, auth, <<>>, KeyError(FlowsClientMissing(auth)), None, EmptyDict, NoFlow)}
         ELSE \* update_flow succeeds: the checksum alone is stored
              {Out(Put(c, "flow_checksum", get_flow_checksum(definition)), auth,
                   <<FlowCall("update_flow", flow_id, TRUE, None, NoErr)>>,
                   NoErr, flow_id, EmptyDict, NoFlow)}
              \cup
              \* update_flow fails: 'Not Found' deploys anew, the rest is raised
              UNION {
                 IF e.type = "GlobusAPIError" /\ e.code = "Not Found"
                 THEN DeployFlow(c, auth, definition,
                                 <<FlowCall("update_flow", flow_id, FALSE, None, e)>>)
                 ELSE {Out(c, auth, <<FlowCall("update_flow", flow_id, FALSE, None, e)>>,
                           e, None, EmptyDict, NoFlow)}
                 : e \in FlowApiErrors \cup NetworkErrors}
    ELSE IF flow_id = None
    THEN DeployFlow(c, auth, definition, <<>>)
    ELSE \* a stored empty flow_id is neither updated nor deployed
         {Out(c, auth, <<>>, NoErr, flow_id, EmptyDict, NoFlow)}

\* get_flow_id as it would be if the record counted as missing only when
\* both flow_id and flow_scope are absent
get_flow_id_BothMissing(c, auth, autoreg, definition) ==
    LET flow_id == Get(c, "flow_id")
        flow_scope == Get(c, "flow_scope")
        Kept(o) ==
            IF ~Returned(o) THEN o
            ELSE IF "flow_id" \in DOMAIN o.cfg
            THEN Out(o.cfg, o.auth, o.calls, NoErr, o.cfg["flow_id"], EmptyDict, NoFlow)
            ELSE Out(o.cfg, o.auth, o.calls, KeyError("flow_id"), None, EmptyDict, NoFlow)
    IN
    IF Falsy(flow_id) /\ Falsy(flow_scope)
    THEN IF autoreg = FALSE
         THEN {Out(c, auth, <<>>, Exc("NoFlowRegistered", None, "flow_id", {}),
                   None, EmptyDict, NoFlow)}
         ELSE {Kept(o) : o \in register_flow(c, auth, definition)}
    ELSE IF Get(c, "flow_checksum") # get_flow_checksum(definition)
    THEN IF autoreg = FALSE
         THEN {Out(c, auth, <<>>, Exc("FlowObsolete", None, "flow_definition", {}),
                   None, EmptyDict, NoFlow)}
         ELSE {Kept(o) : o \in register_flow(c, auth, definition)}
    ELSE {Kept(Out(c, auth, <<>>, NoErr, None, EmptyDict, NoFlow))}

get_flow_id(c, auth, autoreg, definition) ==
    LET flow_id == Get(c, "flow_id")
        flow_scope == Get(c, "flow_scope")
        \* line 463: return cfg_sec['flow_id']
        Stored(o) ==
            IF ~Returned(o) THEN o
            ELSE IF "flow_id" \in DOMAIN o.cfg
            THEN Out(o.cfg, o.auth, o.calls, NoErr, o.cfg["flow_id"], EmptyDict, NoFlow)
            ELSE Out(o.cfg, o.auth, o.calls, KeyError("flow_id"), None, EmptyDict, NoFlow)
    IN
    IF Falsy(flow_id) \/ Falsy(flow_scope)
    THEN IF autoreg = FALSE
         THEN {Out(c, auth, <<>>, Exc("NoFlowRegistered", None, "flow_id", {}),
                   None, EmptyDict, NoFlow)}
         ELSE {Stored(o) : o \in register_flow(c, auth, definition)}
    ELSE IF Get(c, "flow_checksum") # get_flow_checksum(definition)
    THEN IF autoreg = FALSE
         THEN {Out(c, auth, <<>>, Exc("FlowObsolete", None, "flow_definition", {}),
                   None, EmptyDict, NoFlow)}
         ELSE {Stored(o) : o \in register_flow(c, auth, definition)}
    ELSE {Stored(Out(c, auth, <<>>, NoErr, None, EmptyDict, NoFlow))}

-----------------------------------------------------------------------------
(* Login.                                                                  *)

\* What the native client leaves in self.authorizers after nc.login for the
\* requested scopes: the consent is given, or it is not.
NativeLogin(auth, requested) == {auth \cup requested, auth}

\* login(**login_kwargs): has_requested says whether requested_scopes is given
login(c, auth, has_requested, requested_scopes, force) ==
    IF is_logged_in(c, auth) /\ force # TRUE
    THEN {Out(c, auth, <<>>, NoErr, None, EmptyDict, NoFlow)}
    ELSE LET requested == IF has_requested THEN requested_scopes ELSE scopes(c) IN
         {Out(c, a, <<Call("login", None, requested, force, EmptyDict, TRUE,
                           IF requested \subseteq a THEN "granted" ELSE "denied",
                           None, NoErr)>>,
              NoErr, None, EmptyDict, NoFlow) : a \in NativeLogin(auth, requested)}

-----------------------------------------------------------------------------
(* Input of a run.                                                         *)

\* {k: cfg[section][k] for k in input_keys if cfg[section].get(k)}
override_values(section, input_keys) ==
    [k \in {x \in input_keys : ~Falsy(Get(section, x))} |-> section[k]]

RECURSIVE ToolInput_PrivateOverPublic(_, _, _, _, _)
\* The loop of get_input as it would be if the private section were read
\* after the public one
ToolInput_PrivateOverPublic(ts, i, flow_input, c, p) ==
    IF i > Len(ts) THEN flow_input
    ELSE LET tool == ts[i]
             input_keys == DOMAIN tool.flow_input
                           \cup {tool.required_input[j] : j \in DOMAIN tool.required_input}
             defaults == Update(flow_input, tool.flow_input)
             public == Update(defaults, override_values(p, input_keys))
             private == Update(public, override_values(c, input_keys))
         IN  ToolInput_PrivateOverPublic(ts, i + 1, private, c, p)

RECURSIVE ToolInput(_, _, _, _, _)
\* The loop of get_input over the tools from tool i on
ToolInput(ts, i, flow_input, c, p) ==
    IF i > Len(ts) THEN flow_input
    ELSE LET tool == ts[i]
             input_keys == DOMAIN tool.flow_input
                           \cup {tool.required_input[j] : j \in DOMAIN tool.required_input}
             defaults == Update(flow_input, tool.flow_input)
             private == Update(defaults, override_values(c, input_keys))
             public == Update(private, override_values(p, input_keys))
         IN  ToolInput(ts, i + 1, public, c, p)

\* get_input: the outcome's ids field holds the returned {'input': flow_input}
get_input(ts, c, p, auth, autoreg) ==
    {IF Returned(o)
     THEN Out(o.cfg, o.auth, o.calls, NoErr, None,
              [input |-> ToolInput(ts, 1, o.ids, o.cfg, p)], NoFlow)
     ELSE o
     : o \in get_funcx_function_ids(ts, c, auth, autoreg)}

RECURSIVE check_input(_, _, _)
\* check_input(tool, flow_input) from required input j on: the exception raised, or NoErr
check_input(tool, flow_input, j) ==
    IF j > Len(tool.required_input) THEN NoErr
    ELSE IF "input" \notin DOMAIN flow_input THEN KeyError("input")
    ELSE IF tool.required_input[j] \notin DOMAIN flow_input["input"]
    THEN Exc("ConfigException", None, tool.required_input[j], {})
    ELSE check_input(tool, flow_input, j + 1)

RECURSIVE CheckTools(_, _, _)
\* Lines 596-597: check_input on every tool, the first exception wins
CheckTools(ts, i, flow_input) ==
    IF i > Len(ts) THEN NoErr
    ELSE IF check_input(ts[i], flow_input, 1) # NoErr THEN check_input(ts[i], flow_input, 1)
    ELSE CheckTools(ts, i + 1, flow_input)

-----------------------------------------------------------------------------
(* The run-start call and its errors.                                      *)

ScopeMismatchMessage ==
    "{\"error\": {\"detail\": \"unable to get tokens for scopes ['flow']\"}}"

OtherDetailMessage == "{\"error\": {\"detail\": \"flow input failed validation\"}}"

NoDetailMessage == "{\"code\": \"BAD_GATEWAY\"}"

NotJsonMessage == "<html>502 Bad Gateway</html>"

RunApiMessages ==
    {ScopeMismatchMessage, OtherDetailMessage, NoDetailMessage, NotJsonMessage}

\* The errors the run-start call may raise
RunErrors ==
    {Exc("GlobusAPIError", "Error", m, {}) : m \in RunApiMessages} \cup NetworkErrors

\* The runs the run-start call may answer with
RunAnswers ==
    {[action_id |-> "action1", status |-> "ACTIVE", description |-> "started"],
     [action_id |-> "action1", status |-> "FAILED", description |-> "bad input"]}

\* json.loads(gapie.message)['error']['detail']: the detail text, or the
\* exception that json.loads or the indexing raises
ErrorDetail(message) ==
    IF message = ScopeMismatchMessage
    THEN [exc |-> NoErr, detail |-> "unable to get tokens for scopes ['flow']"]
    ELSE IF message = OtherDetailMessage
    THEN [exc |-> NoErr, detail |-> "flow input failed validation"]
    ELSE IF message = NoDetailMessage
    THEN [exc |-> KeyError("error"), detail |-> None]
    ELSE [exc |-> Exc("JSONDecodeError", None, message, {}), detail |-> None]

RunCall(flow_id, flow_scope, input, ok, flow, err) ==
    Call("run_flow", flow_id, {flow_scope}, FALSE, input, ok, flow.action_id,
         flow.status, err)

\* self.flows_client.run_flow(flow_id, cfg_sec['flow_scope'], combine_flow_input)
\* after the calls made so far: a run, or the error raised
StartRun(c, auth, calls, flow_id, input) ==
    IF FlowsClientMissing(auth) # None
    THEN {Out(c, auth, calls, KeyError(FlowsClientMissing(auth)), None, EmptyDict, NoFlow)}
    ELSE IF "flow_scope" \notin DOMAIN c
    THEN {Out(c, auth, calls, KeyError("flow_scope"), None, EmptyDict, NoFlow)}
    ELSE {Out(c, auth, Append(calls, RunCall(flow_id, c["flow_scope"], input, TRUE, f, NoErr)),
              NoErr, None, EmptyDict, f) : f \in RunAnswers}
         \cup
         {Out(c, auth, Append(calls, RunCall(flow_id, c["flow_scope"], input, FALSE, NoFlow, e)),
              e, None, EmptyDict, NoFlow) : e \in RunErrors}

-----------------------------------------------------------------------------
(* get_status.                                                             *)

\* The statuses the flows service reports for a run
RunStatuses == {"ACTIVE", "INACTIVE", "SUCCEEDED", "FAILED"}

\* Failures of the flows service on flow_action_status
StatusErrors == {Exc("GlobusAPIError", "Not Found", "{}", {})} \cup NetworkErrors

NoFlowDefined == Exc("ConfigException", None, "No Flow defined, register a flow", {})

\* One way get_status can end: the config it leaves, the exception it raised
\* (NoErr when it returned) and the 'status' of the response it returned
Fetched(c, exc, status) == [cfg |-> c, exc |-> exc, status |-> status]

\* get_status(action_id): the flows client, then get_flow_id(), then
\* cfg['flow_scope'], then the remote call; a KeyError of any of the first
\* three is raised as ConfigException
get_status(c, auth, autoreg, definition) ==
    IF FlowsClientMissing(auth) # None
    THEN {Fetched(c, NoFlowDefined, None)}
    ELSE UNION {
            IF ~Returned(o)
            THEN {Fetched(o.cfg, IF o.exc.type = "KeyError" THEN NoFlowDefined ELSE o.exc,
                          None)}
            ELSE IF "flow_scope" \notin DOMAIN o.cfg
            THEN {Fetched(o.cfg, NoFlowDefined, None)}
            ELSE {Fetched(o.cfg, NoErr, s) : s \in RunStatuses}
                 \cup {Fetched(o.cfg, e, None) : e \in StatusErrors}
            : o \in get_flow_id(c, auth, autoreg, definition)}

-----------------------------------------------------------------------------
(* run_flow.                                                               *)

\* The handler ends here with exception e
Raise(o, e) == Out(o.cfg, o.auth, o.calls, e, None, EmptyDict, NoFlow)

\* The flow_input argument: None, or a dict
NoInput == [given |-> FALSE, dict |-> EmptyDict]

GivenInput(d) == [given |-> TRUE, dict |-> d]

\* Lines 590-595 on the combined input held in o.ids
CombineInput(o, flow_input) ==
    IF ~flow_input.given THEN o
    ELSE IF \/ "input" \notin DOMAIN flow_input.dict
            \/ flow_input.dict["input"] = EmptyDict
            \/ Cardinality(DOMAIN flow_input.dict) # 1
    THEN Raise(o, Exc("ConfigException", None, "Malformed input to flow", {}))
    ELSE IF "input" \notin DOMAIN o.ids
    THEN Raise(o, KeyError("input"))
    ELSE [o EXCEPT !.ids = [input |-> Update(o.ids["input"], flow_input.dict["input"])]]

\* Lines 596-600: the required input of every tool, then the authorizers
CheckRun(ts, o) ==
    IF CheckTools(ts, 1, o.ids) # NoErr
    THEN Raise(o, CheckTools(ts, 1, o.ids))
    ELSE IF ~is_logged_in(o.cfg, o.auth)
    THEN Raise(o, Exc("AuthException", None, "Not Logged in, missing scopes",
                      missing_authorizers(o.cfg, o.auth)))
    ELSE o

\* Line 603: flow_id = self.get_flow_id()
ResolveFlow(o, autoreg, definition) ==
    {Out(g.cfg, g.auth, o.calls \o g.calls, g.exc, g.id,
         IF Returned(g) THEN o.ids ELSE EmptyDict, NoFlow)
     : g \in get_flow_id(o.cfg, o.auth, autoreg, definition)}

\* Lines 604-611: the additional login a newly registered flow scope needs
AdditionalLogin(o, autologin) ==
    IF is_logged_in(o.cfg, o.auth) THEN {o}
    ELSE IF autologin = TRUE
    THEN {Out(l.cfg, l.auth, o.calls \o l.calls, NoErr, o.id, o.ids, NoFlow)
          : l \in login(o.cfg, o.auth, FALSE, {}, FALSE)}
    ELSE {Raise(o, Exc("AuthException", None, "Need scopes to run flow!",
                       missing_authorizers(o.cfg, o.auth)))}

\* The except clause as it would be if the login for the flow scope were not
\* forced
HandleRunError_UnforcedLogin(o, r, autologin) ==
    IF Returned(r) \/ r.exc.type # "GlobusAPIError" THEN {r}
    ELSE LET parsed == ErrorDetail(r.exc.msg) IN
         IF parsed.exc # NoErr THEN {Raise(r, parsed.exc)}
         ELSE IF Contains(parsed.detail, "unable to get tokens for scopes")
         THEN IF autologin
              THEN UNION {StartRun(l.cfg, l.auth, r.calls \o l.calls, o.id, o.ids)
                          : l \in login(r.cfg, r.auth, TRUE, {r.cfg["flow_scope"]}, FALSE)}
              ELSE {Raise(r, Exc("AuthException", None,
                                 "Scope change for flow, re-auth required",
                                 {r.cfg["flow_scope"]}))}
         ELSE {r}

\* The except clause as it would be if auto_login were not consulted
HandleRunError_AlwaysLogin(o, r, autologin) ==
    IF Returned(r) \/ r.exc.type # "GlobusAPIError" THEN {r}
    ELSE LET parsed == ErrorDetail(r.exc.msg) IN
         IF parsed.exc # NoErr THEN {Raise(r, parsed.exc)}
         ELSE IF Contains(parsed.detail, "unable to get tokens for scopes")
         THEN UNION {StartRun(l.cfg, l.auth, r.calls \o l.calls, o.id, o.ids)
                     : l \in login(r.cfg, r.auth, TRUE, {r.cfg["flow_scope"]}, TRUE)}
         ELSE {r}

\* The except clause as it would be if a second scope mismatch were answered
\* like the first, by one more forced login and one more run-start call
HandleRunError_RetriesAgain(o, r, autologin) ==
    IF Returned(r) \/ r.exc.type # "GlobusAPIError" THEN {r}
    ELSE LET parsed == ErrorDetail(r.exc.msg)
             Retry(x) ==
                 UNION {StartRun(l.cfg, l.auth, x.calls \o l.calls, o.id, o.ids)
                        : l \in login(x.cfg, x.auth, TRUE, {x.cfg["flow_scope"]}, TRUE)}
         IN
         IF parsed.exc # NoErr THEN {Raise(r, parsed.exc)}
         ELSE IF Contains(parsed.detail, "unable to get tokens for scopes")
         THEN IF autologin
              THEN UNION {IF ~Returned(x) /\ x.exc.type = "GlobusAPIError"
                             /\ Contains(x.exc.msg, "unable to get tokens for scopes")
                          THEN Retry(x) ELSE {x}
                          : x \in Retry(r)}
              ELSE {Raise(r, Exc("AuthException", None,
                                 "Scope change for flow, re-auth required",
                                 {r.cfg["flow_scope"]}))}
         ELSE {r}

\* Lines 624-638: what the except clause makes of the first run-start
\* outcome r; o is the state of the handler before the call
HandleRunError(o, r, autologin) ==
    IF Returned(r) \/ r.exc.type # "GlobusAPIError" THEN {r}
    ELSE LET parsed == ErrorDetail(r.exc.msg) IN
         IF parsed.exc # NoErr THEN {Raise(r, parsed.exc)}
         ELSE IF Contains(parsed.detail, "unable to get tokens for scopes")
         THEN IF autologin
              THEN UNION {StartRun(l.cfg, l.auth, r.calls \o l.calls, o.id, o.ids)
                          : l \in login(r.cfg, r.auth, TRUE, {r.cfg["flow_scope"]}, TRUE)}
              ELSE {Raise(r, Exc("AuthException", None,
                                 "Scope change for flow, re-auth required",
                                 {r.cfg["flow_scope"]}))}
         ELSE {r}

\* The end of run_flow as it would be if a run that starts FAILED were
\* returned like any other
CheckStarted_ReturnsFailed(r) ==
    [r EXCEPT !.id = None, !.ids = EmptyDict]

\* Lines 643-645: a run that starts FAILED is a ConfigException
CheckStarted(r) ==
    IF Returned(r) /\ r.flow.status = "FAILED"
    THEN Raise(r, Exc("ConfigException", None, "Flow Failed: " \o r.flow.description, {}))
    ELSE [r EXCEPT !.id = None, !.ids = EmptyDict]

run_flow(ts, c, p, auth, autoreg, autologin, definition, flow_input, use_defaults) ==
    LET Defaults ==
            IF use_defaults THEN get_input(ts, c, p, auth, autoreg)
            ELSE {Out(c, auth, <<>>, NoErr, None, EmptyDict, NoFlow)}
        Checked ==
            {IF ~Returned(o) THEN o
             ELSE IF ~Returned(CombineInput(o, flow_input)) THEN CombineInput(o, flow_input)
             ELSE CheckRun(ts, CombineInput(o, flow_input))
             : o \in Defaults}
        Resolved ==
            UNION {IF Returned(o) THEN ResolveFlow(o, autoreg, definition) ELSE {o}
                   : o \in Checked}
        Ready ==
            UNION {IF Returned(o) THEN AdditionalLogin(o, autologin) ELSE {o}
                   : o \in Resolved}
        Started ==
            UNION {IF Returned(o)
                   THEN UNION {HandleRunError(o, r, autologin)
                               : r \in StartRun(o.cfg, o.auth, o.calls, o.id, o.ids)}
                   ELSE {o}
                   : o \in Ready}
    IN  {IF Returned(r) /\ r.flow # NoFlow THEN CheckStarted(r) ELSE r : r \in Started}

-----------------------------------------------------------------------------
(* Flow modifiers (src/gladier/utils/flow_modifiers.py).                   *)

funcx_modifiers == {"endpoint", "payload", "tasks"}

state_modifiers == {"InputPath", "ResultPath", "WaitTime"}

supported_modifiers == state_modifiers \cup funcx_modifiers

\* No function: what get_function returns for an unknown identifier
NoFunc == Func(None, None)

\* A value of a flow or of a modifier: text (s), a function object (fn), a
\* number (s holds its digits), a list (items) or a dict (d)
Value(t, s, fn, items, d) == [t |-> t, s |-> s, fn |-> fn, items |-> items, d |-> d]

Str(s) == Value("str", s, NoFunc, <<>>, EmptyDict)

FuncValue(f) == Value("func", None, f, <<>>, EmptyDict)

Number(s) == Value("number", s, NoFunc, <<>>, EmptyDict)

List(items) == Value("list", None, NoFunc, items, EmptyDict)

Dict(d) == Value("dict", None, NoFunc, <<>>, d)

\* isinstance(v, str)
IsStr(v) == v.t = "str"

\* d without the keys ks
Remove(d, ks) == [k \in DOMAIN d \ ks |-> d[k]]

\* x in seq, for a list
InSeq(seq, x) == \E i \in DOMAIN seq : seq[i] = x

\* seq.index(x)
IndexOf(seq, x) ==
    CHOOSE i \in DOMAIN seq : seq[i] = x /\ \A j \in 1..(i - 1) : seq[j] # x

\* gladier.utils.name_generation.get_funcx_flow_state_name: the derived state
\* name, the function name in camel case
get_funcx_flow_state_name(func) ==
    IF func.name = "f" THEN "F"
    ELSE IF func.name = "g" THEN "G"
    ELSE func.name

\* self.functions, self.function_names and self.state_names of FlowModifiers
functions(ts) == AllFuncs(ts)

function_names(ts) == [i \in DOMAIN AllFuncs(ts) |-> AllFuncs(ts)[i].name]

state_names(ts) ==
    [i \in DOMAIN AllFuncs(ts) |-> get_funcx_flow_state_name(AllFuncs(ts)[i])]

\* One modifier of a directive, one directive, and the modifiers argument:
\* the items of a dict in insertion order, or something that is no dict
Modifier(kind, value) == [kind |-> kind, value |-> value]

Directive(name, ms) == [name |-> name, mods |-> ms]

ModifierSet(is_dict, items) == [is_dict |-> is_dict, items |-> items]

get_function(ts, function_identifier) ==
    IF IsStr(function_identifier) /\ InSeq(function_names(ts), function_identifier.s)
    THEN functions(ts)[IndexOf(function_names(ts), function_identifier.s)]
    ELSE IF function_identifier.t = "func" /\ InSeq(functions(ts), function_identifier.fn)
    THEN function_identifier.fn
    ELSE NoFunc

get_flow_state_name(ts, function_identifier) ==
    get_funcx_flow_state_name(get_function(ts, function_identifier))

get_state_result_path(state_name) == "$." \o state_name \o ".details.results"

FlowModifierException(msg) == Exc("FlowModifierException", None, msg, {})

\* check_modifiers as it would be without the test of the modifier kinds
check_modifiers_NoKindCheck(ts, modifiers) ==
    IF ~modifiers.is_dict
    THEN FlowModifierException("Flow Modifiers must be a dict")
    ELSE LET items == modifiers.items
             bad == {i \in DOMAIN items : get_function(ts, items[i].name) = NoFunc}
         IN  IF bad = {} THEN NoErr
             ELSE FlowModifierException("included modifier which does not exist")

\* check_modifiers: the exception the first offending directive raises, or NoErr
check_modifiers(ts, modifiers) ==
    IF ~modifiers.is_dict
    THEN FlowModifierException("Flow Modifiers must be a dict")
    ELSE LET items == modifiers.items
             Unknown(i) == get_function(ts, items[i].name) = NoFunc
             Unsupported(i) ==
                 \E j \in DOMAIN items[i].mods :
                     items[i].mods[j].kind \notin supported_modifiers
             bad == {i \in DOMAIN items : Unknown(i) \/ Unsupported(i)}
         IN  IF bad = {} THEN NoErr
             ELSE IF Unknown(CHOOSE i \in bad : \A k \in bad : i <= k)
             THEN FlowModifierException("included modifier which does not exist")
             ELSE FlowModifierException("Unsupported modifier")

\* ResolveValue as it would be if a plain text were written as it is
ResolveValue_TextKept(ts, mod_value) ==
    IF ~IsStr(mod_value)
    THEN IF mod_value.t = "func" /\ InSeq(functions(ts), mod_value.fn)
         THEN Str(get_state_result_path(get_funcx_flow_state_name(mod_value.fn)))
         ELSE mod_value
    ELSE IF ~StartsWith(mod_value.s, "$.")
    THEN IF InSeq(function_names(ts), mod_value.s)
         THEN Str(get_state_result_path(
                      state_names(ts)[IndexOf(function_names(ts), mod_value.s)]))
         ELSE IF InSeq(state_names(ts), mod_value.s)
         THEN Str(get_state_result_path(mod_value.s))
         ELSE mod_value
    ELSE mod_value

\* ResolveValue as it would be if the input segment were left out of the
\* reference written for a plain text
ResolveValue_NoInputSegment(ts, mod_value) ==
    IF ~IsStr(mod_value)
    THEN IF mod_value.t = "func" /\ InSeq(functions(ts), mod_value.fn)
         THEN Str(get_state_result_path(get_funcx_flow_state_name(mod_value.fn)))
         ELSE mod_value
    ELSE IF ~StartsWith(mod_value.s, "$.")
    THEN IF InSeq(function_names(ts), mod_value.s)
         THEN Str(get_state_result_path(
                      state_names(ts)[IndexOf(function_names(ts), mod_value.s)]))
         ELSE IF InSeq(state_names(ts), mod_value.s)
         THEN Str(get_state_result_path(mod_value.s))
         ELSE Str("$." \o mod_value.s)
    ELSE mod_value

\* ResolveValue as it would be if a function object were not looked up
ResolveValue_DescriptorKept(ts, mod_value) ==
    IF ~IsStr(mod_value)
    THEN mod_value
    ELSE IF ~StartsWith(mod_value.s, "$.")
    THEN IF InSeq(function_names(ts), mod_value.s)
         THEN Str(get_state_result_path(
                      state_names(ts)[IndexOf(function_names(ts), mod_value.s)]))
         ELSE IF InSeq(state_names(ts), mod_value.s)
         THEN Str(get_state_result_path(mod_value.s))
         ELSE Str("$.input." \o mod_value.s)
    ELSE mod_value

\* Lines 83-94: the value generic_set_modifier writes for mod_value
ResolveValue(ts, mod_value) ==
    IF ~IsStr(mod_value)
    THEN IF mod_value.t = "func" /\ InSeq(functions(ts), mod_value.fn)
         THEN Str(get_state_result_path(get_funcx_flow_state_name(mod_value.fn)))
         ELSE mod_value
    ELSE IF ~StartsWith(mod_value.s, "$.")
    THEN IF InSeq(function_names(ts), mod_value.s)
         THEN Str(get_state_result_path(
                      state_names(ts)[IndexOf(function_names(ts), mod_value.s)]))
         ELSE IF InSeq(state_names(ts), mod_value.s)
         THEN Str(get_state_result_path(mod_value.s))
         ELSE Str("$.input." \o mod_value.s)
    ELSE mod_value

\* generic_set_modifier as it would be if the key and its twin were not
\* removed before the write
generic_set_modifier_NoDuplicateRemoval(ts, item, mod_name, mod_value) ==
    LET value == ResolveValue(ts, mod_value) IN
    IF IsStr(value) /\ StartsWith(value.s, "$.")
    THEN Put(item, mod_name \o ".$", value)
    ELSE Put(item, mod_name, value)

\* generic_set_modifier as it would be if every value were written under
\* the reference-suffixed key
generic_set_modifier_AlwaysReference(ts, item, mod_name, mod_value) ==
    Put(Remove(item, {mod_name, mod_name \o ".$"}), mod_name \o ".$",
        ResolveValue(ts, mod_value))

generic_set_modifier(ts, item, mod_name, mod_value) ==
    LET value == ResolveValue(ts, mod_value)
        kept == Remove(item, {mod_name, mod_name \o ".$"})
    IN  IF IsStr(value) /\ StartsWith(value.s, "$.")
        THEN Put(kept, mod_name \o ".$", value)
        ELSE Put(kept, mod_name, value)

\* The state a step of apply_modifier leaves, and the exception it raised
Applied(flow_state, exc) == [state |-> flow_state, exc |-> exc]

\* One turn of the loop as it would be if an endpoint or payload modifier
\* were set on the first call task only
ApplyOne_FirstTaskOnly(ts, flow_state, modifier_name, value) ==
    IF modifier_name \in funcx_modifiers
    THEN IF "Parameters" \notin DOMAIN flow_state
         THEN Applied(flow_state, KeyError("Parameters"))
         ELSE LET Parameters == flow_state["Parameters"] IN
              IF Parameters.t # "dict"
              THEN Applied(flow_state, Exc("TypeError", None, "Parameters", {}))
              ELSE IF modifier_name = "tasks"
              THEN Applied(Put(flow_state, "Parameters",
                               Dict(generic_set_modifier(ts, Parameters.d, "tasks", value))),
                           NoErr)
              ELSE IF "tasks" \notin DOMAIN Parameters.d
              THEN Applied(flow_state, KeyError("tasks"))
              ELSE LET tasks == Parameters.d["tasks"] IN
                   IF tasks.t # "list" \/ \E i \in DOMAIN tasks.items : tasks.items[i].t # "dict"
                   THEN Applied(flow_state, Exc("TypeError", None, "tasks", {}))
                   ELSE Applied(
                          Put(flow_state, "Parameters",
                              Dict(Put(Parameters.d, "tasks",
                                       List([i \in DOMAIN tasks.items |->
                                               IF i = 1
                                               THEN Dict(generic_set_modifier(
                                                           ts, tasks.items[i].d,
                                                           modifier_name, value))
                                               ELSE tasks.items[i]])))),
                          NoErr)
    ELSE IF modifier_name \in state_modifiers
    THEN LET set == generic_set_modifier(ts, flow_state, modifier_name, value) IN
         IF modifier_name = "InputPath" /\ "Parameters" \in DOMAIN set
         THEN LET popped == Remove(set, {"Parameters"}) IN
              IF "InputPath.$" \notin DOMAIN popped
              THEN Applied(popped, KeyError("InputPath.$"))
              ELSE Applied(Put(Remove(popped, {"InputPath.$"}), "InputPath",
                               popped["InputPath.$"]),
                           NoErr)
         ELSE Applied(set, NoErr)
    ELSE Applied(flow_state, NoErr)

\* One turn of the loop of apply_modifier: modifier_name, value on flow_state
ApplyOne(ts, flow_state, modifier_name, value) ==
    IF modifier_name \in funcx_modifiers
    THEN IF "Parameters" \notin DOMAIN flow_state
         THEN Applied(flow_state, KeyError("Parameters"))
         ELSE LET Parameters == flow_state["Parameters"] IN
              IF Parameters.t # "dict"
              THEN Applied(flow_state, Exc("TypeError", None, "Parameters", {}))
              ELSE IF modifier_name = "tasks"
              THEN Applied(Put(flow_state, "Parameters",
                               Dict(generic_set_modifier(ts, Parameters.d, "tasks", value))),
                           NoErr)
              ELSE IF "tasks" \notin DOMAIN Parameters.d
              THEN Applied(flow_state, KeyError("tasks"))
              ELSE LET tasks == Parameters.d["tasks"] IN
                   IF tasks.t # "list" \/ \E i \in DOMAIN tasks.items : tasks.items[i].t # "dict"
                   THEN Applied(flow_state, Exc("TypeError", None, "tasks", {}))
                   ELSE Applied(
                          Put(flow_state, "Parameters",
                              Dict(Put(Parameters.d, "tasks",
                                       List([i \in DOMAIN tasks.items |->
                                               Dict(generic_set_modifier(
                                                      ts, tasks.items[i].d,
                                                      modifier_name, value))])))),
                          NoErr)
    ELSE IF modifier_name \in state_modifiers
    THEN LET set == generic_set_modifier(ts, flow_state, modifier_name, value) IN
         IF modifier_name = "InputPath" /\ "Parameters" \in DOMAIN set
         THEN LET popped == Remove(set, {"Parameters"}) IN
              IF "InputPath.$" \notin DOMAIN popped
              THEN Applied(popped, KeyError("InputPath.$"))
              ELSE Applied(Put(Remove(popped, {"InputPath.$"}), "InputPath",
                               popped["InputPath.$"]),
                           NoErr)
         ELSE Applied(set, NoErr)
    ELSE Applied(flow_state, NoErr)

RECURSIVE ApplyModifierFrom(_, _, _, _)
\* The loop of apply_modifier from modifier i on; an exception ends it and
\* leaves the state as rewritten so far
ApplyModifierFrom(ts, flow_state, mod_items, i) ==
    IF i > Len(mod_items) THEN Applied(flow_state, NoErr)
    ELSE LET one == ApplyOne(ts, flow_state, mod_items[i].kind, mod_items[i].value) IN
         IF one.exc # NoErr THEN one
         ELSE ApplyModifierFrom(ts, one.state, mod_items, i + 1)

apply_modifier(ts, flow_state, mod_items) ==
    ApplyModifierFrom(ts, flow_state, mod_items, 1)

RECURSIVE ApplyModifiersFrom(_, _, _, _)
\* The loop of apply_modifiers from directive i on, over flow['States']
ApplyModifiersFrom(ts, items, i, flow) ==
    IF i > Len(items) THEN [flow |-> flow, exc |-> NoErr]
    ELSE LET state_name == get_flow_state_name(ts, items[i].name) IN
         IF state_name \notin DOMAIN flow
         THEN [flow |-> flow, exc |-> KeyError(state_name)]
         ELSE LET one == apply_modifier(ts, flow[state_name], items[i].mods)
                  rewritten == Put(flow, state_name, one.state)
              IN  IF one.exc # NoErr THEN [flow |-> rewritten, exc |-> one.exc]
                  ELSE ApplyModifiersFrom(ts, items, i + 1, rewritten)

apply_modifiers(ts, modifiers, flow) == ApplyModifiersFrom(ts, modifiers.items, 1, flow)

-----------------------------------------------------------------------------
(* The configurations the model starts from.                               *)

\* The catalog of tools: two functions named f with different bodies, one
\* named g; a default for input k, and required inputs k and r.
ToolCatalog ==
    {Tool(<<Func("f", "b1")>>, "k" :> "default_a", <<>>),
     Tool(<<Func("g", "b1")>>, EmptyDict, <<"r">>),
     Tool(<<Func("f", "b2")>>, "k" :> "default_c", <<"k">>)}

\* gladier_tools: one to MaxTools tools of the catalog
ToolLists == UNION {[1..n -> ToolCatalog] : n \in 1..MaxTools}

FlowDefinitions == {"flow_v1", "flow_v2"}

\* The dict without the keys whose value is None
Prune(d) == [k \in {x \in DOMAIN d : d[x] # None} |-> d[k]]

FuncNamesOf(ts) == {AllFuncs(ts)[i].name : i \in DOMAIN AllFuncs(ts)}

\* The ids found stored when the client starts
StoredIds == {"id1", None}

\* A stored function record for name n: an id or none, a checksum or none
StoredFuncIds(ts, n) == IF n \in FuncNamesOf(ts) THEN StoredIds ELSE {None}

StoredFuncChecksums(ts, n) ==
    IF n \in FuncNamesOf(ts)
    THEN {get_funcx_function_checksum(Func(n, b)) : b \in {"b1", "b2"}} \cup {None}
    ELSE {None}

\* The function records found stored for the tools ts
StoredFunctionRecords(ts) ==
    {Prune([f_funcx_id |-> f_id, f_funcx_id_checksum |-> f_ck,
            g_funcx_id |-> g_id, g_funcx_id_checksum |-> g_ck])
     : f_id \in StoredFuncIds(ts, "f"), f_ck \in StoredFuncChecksums(ts, "f"),
       g_id \in StoredFuncIds(ts, "g"), g_ck \in StoredFuncChecksums(ts, "g")}

\* The flow records found stored: any subset of id, scope and checksum
StoredFlowRecords ==
    {Prune([flow_id |-> flow_id, flow_scope |-> flow_scope, flow_checksum |-> flow_ck])
     : flow_id \in StoredIds,
       flow_scope \in {IF id = None THEN None ELSE ScopeOf(id) : id \in StoredIds},
       flow_ck \in {get_flow_checksum("flow_v1"), None}}

\* The authorizers the client may hold for the basic scopes: all of them, or
\* all but one
BasicAuthorizers == {GLADIER_SCOPES} \cup {GLADIER_SCOPES \ {s} : s \in GLADIER_SCOPES}

\* The arguments run_flow is called with
FlowInputs ==
    {NoInput,
     GivenInput([input |-> "k" :> "mine"]),
     GivenInput([input |-> "r" :> "mine"])}

FlowScopes == {ScopeOf(id) : id \in RemoteIds}

NoOp ==
    [op |-> "none", flow_input |-> NoInput, use_defaults |-> FALSE,
     cfg |-> EmptyDict, auth |-> {}, calls |-> <<>>, exc |-> NoErr,
     id |-> None, ids |-> EmptyDict, flow |-> NoFlow]

\* The record of an operation that started in the current state and ended as o
Done(op, flow_input, use_defaults, o) ==
    [op |-> op, flow_input |-> flow_input, use_defaults |-> use_defaults,
     cfg |-> cfg, auth |-> authorizers, calls |-> o.calls, exc |-> o.exc,
     id |-> o.id, ids |-> o.ids, flow |-> o.flow]

\* The flow-modifier machine before FlowModifiers is constructed for the
\* modifiers and the flow at hand
NewMods(modifiers, flow) ==
    [phase |-> "idle", modifiers |-> modifiers, flow |-> flow, pre |-> flow,
     op |-> "none", exc |-> NoErr, prev_ok |-> FALSE]

IdleMods == NewMods(ModifierSet(TRUE, <<>>), EmptyDict)

\* progress before it is called: nothing fetched, nothing handed to the
\* callback
IdlePoll ==
    [pc |-> "idle", status |-> None, fetched |-> <<>>, delivered |-> <<>>,
     exc |-> NoErr]

-----------------------------------------------------------------------------
(* The registration cache: any stored record, any tool list.               *)

Init ==
    /\ tools \in ToolLists
    /\ flow_definition \in FlowDefinitions
    /\ auto_login = TRUE
    /\ auto_registration \in BOOLEAN
    /\ authorizers \in BasicAuthorizers
    \* the function records and the flow record are disjoint keys, and no
    \* handler of the one reads or writes the other: each starts from any
    \* stored state while the other starts absent
    /\ cfg \in StoredFunctionRecords(tools) \cup StoredFlowRecords
    /\ pub = EmptyDict
    /\ last = NoOp
    /\ mods = IdleMods
    /\ poll = IdlePoll

\* The handler ended as o
Finish(op, flow_input, use_defaults, o) ==
    /\ cfg' = o.cfg
    /\ authorizers' = o.auth
    /\ last' = Done(op, flow_input, use_defaults, o)
    /\ UNCHANGED <<tools, flow_definition, auto_login, auto_registration, pub, mods,
                   poll>>

GetFuncxFunctionIds ==
    \E o \in get_funcx_function_ids(tools, cfg, authorizers, auto_registration) :
        Finish("get_funcx_function_ids", NoInput, FALSE, o)

GetFlowId ==
    \E o \in get_flow_id(cfg, authorizers, auto_registration, flow_definition) :
        Finish("get_flow_id", NoInput, FALSE, o)

Next ==
    \/ GetFuncxFunctionIds
    \/ GetFlowId

Spec == Init /\ [][Next]_vars

-----------------------------------------------------------------------------
(* Runs: run_flow from any flow record, with the functions registered or   *)
(* not yet.                                                                *)

\* The tools of the runs: each tool alone, and the first two together
RunToolLists ==
    {ts \in ToolLists : Len(ts) = 1}
    \cup {<<Tool(<<Func("f", "b1")>>, "k" :> "default_a", <<>>),
            Tool(<<Func("g", "b1")>>, EmptyDict, <<"r">>)>>}

\* Every function of ts registered as id1 with its current checksum
RegisteredFunctions(ts) ==
    LET funcs == AllFuncs(ts)
        ids == [k \in {get_funcx_function_name(funcs[i]) : i \in DOMAIN funcs} |-> "id1"]
        sums == [k \in {get_funcx_function_checksum_name(funcs[i]) : i \in DOMAIN funcs} |->
                    get_funcx_function_checksum(
                        funcs[CHOOSE i \in DOMAIN funcs :
                                get_funcx_function_checksum_name(funcs[i]) = k])]
    IN  Update(ids, sums)

InitRun ==
    /\ tools \in RunToolLists
    /\ flow_definition = "flow_v1"
    /\ auto_login \in BOOLEAN
    /\ auto_registration \in BOOLEAN
    \* logged in for the basic scopes, with or without the stored flow's
    \* scope, or lacking a basic scope
    /\ authorizers \in {GLADIER_SCOPES, GLADIER_SCOPES \cup {ScopeOf("id1")},
                        GLADIER_SCOPES \ {funcx_scope}}
    /\ \E funcs \in {EmptyDict, RegisteredFunctions(tools)}, flow \in StoredFlowRecords :
            cfg = Update(funcs, flow)
    /\ pub = EmptyDict
    /\ last = NoOp
    /\ mods = IdleMods
    /\ poll = IdlePoll

RunFlow ==
    \E flow_input \in FlowInputs, use_defaults \in BOOLEAN :
        \E o \in run_flow(tools, cfg, pub, authorizers, auto_registration, auto_login,
                          flow_definition, flow_input, use_defaults) :
            Finish("run_flow", flow_input, use_defaults, o)

NextRun == RunFlow

SpecRun == InitRun /\ [][NextRun]_vars

-----------------------------------------------------------------------------
(* Flow modifiers: FlowModifiers(tools, modifiers) is constructed, then     *)
(* apply_modifiers is called on the flow, any number of times.             *)

MaxTasks == 2       \* a state's Parameters hold 1..MaxTasks call tasks

\* A funcX call task of a flow state
Task ==
    Dict(("endpoint.$" :> Str("$.input.funcx_endpoint"))
         @@ ("func.$" :> Str("$.input.funcx_id"))
         @@ ("payload.$" :> Str("$.input")))

\* An Action state that passes Parameters with n call tasks
ActionState(n) ==
    ("Type" :> Str("Action"))
    @@ ("Parameters" :> Dict("tasks" :> List([i \in 1..n |-> Task])))
    @@ ("ResultPath" :> Str("$.Result"))
    @@ ("WaitTime" :> Number("300"))

\* An Action state that passes its input by path, without Parameters
PathState ==
    ("Type" :> Str("Action"))
    @@ ("InputPath" :> Str("$.input"))
    @@ ("ResultPath" :> Str("$.Result"))

StateVariants == {ActionState(n) : n \in 1..MaxTasks} \cup {PathState}

\* flow['States'] for the tools ts: one state per derived state name
FlowGraphs(ts) ==
    LET names == {state_names(ts)[i] : i \in DOMAIN state_names(ts)} IN
    {[n \in names |-> IF n = state_names(ts)[1] THEN first ELSE ActionState(1)]
     : first \in StateVariants}

ModTools ==
    {<<Tool(<<Func("f", "b1")>>, "k" :> "default_a", <<>>),
       Tool(<<Func("g", "b1")>>, EmptyDict, <<"r">>)>>,
     <<Tool(<<Func("f", "b1")>>, "k" :> "default_a", <<>>),
       Tool(<<Func("f", "b2")>>, "k" :> "default_c", <<"k">>)>>}

\* The keys of the directives: a function name, a function, a state name
ModNames == {Str("f"), FuncValue(Func("g", "b1")), Str("G")}

ModKinds == supported_modifiers \cup {"Bogus"}

\* The values of the modifiers: a path, a plain text, a function name, a
\* function, a number, a list of call tasks
ModValues ==
    {Str("$.x"), Str("ep-uuid"), Str("g"), FuncValue(Func("g", "b1")), Number("5"),
     List(<<Task>>)}

SingleMods == {<<Modifier(k, v)>> : k \in ModKinds, v \in ModValues}

PairMods ==
    {<<Modifier(k1, v1), Modifier(k2, v2)>>
     : <<k1, k2>> \in {p \in ModKinds \X ModKinds : p[1] # p[2]},
       <<v1, v2>> \in ModValues \X ModValues}

\* The modifiers argument: not a dict; a dict of no, one or two directives
ModifierSets ==
    {ModifierSet(FALSE, <<>>), ModifierSet(TRUE, <<>>)}
    \cup {ModifierSet(TRUE, <<Directive(n, ms)>>)
          : n \in ModNames, ms \in SingleMods \cup PairMods}
    \cup {ModifierSet(TRUE, <<Directive(p[1], m1), Directive(p[2], m2)>>)
          : p \in {q \in ModNames \X ModNames : q[1] # q[2]},
            m1 \in SingleMods, m2 \in SingleMods}

InitMod ==
    /\ tools \in ModTools
    /\ flow_definition = "flow_v1"
    /\ auto_login = TRUE
    /\ auto_registration = TRUE
    /\ authorizers = GLADIER_SCOPES
    /\ cfg = EmptyDict
    /\ pub = EmptyDict
    /\ last = NoOp
    /\ \E modifiers \in ModifierSets, flow \in FlowGraphs(tools) :
            mods = NewMods(modifiers, flow)
    /\ poll = IdlePoll

\* FlowModifiers(tools, modifiers): __init__ ends with check_modifiers
ConstructFlowModifiers ==
    /\ mods.phase = "idle"
    /\ LET e == check_modifiers(tools, mods.modifiers) IN
       mods' = [mods EXCEPT !.phase = IF e = NoErr THEN "ready" ELSE "failed",
                            !.op = "construct", !.exc = e, !.pre = mods.flow,
                            !.prev_ok = FALSE]
    /\ UNCHANGED <<tools, flow_definition, auto_login, auto_registration,
                   authorizers, cfg, pub, last, poll>>

\* apply_modifiers(flow) on the constructed FlowModifiers
ApplyModifiers ==
    /\ mods.phase = "ready"
    /\ LET r == apply_modifiers(tools, mods.modifiers, mods.flow) IN
       mods' = [mods EXCEPT !.flow = r.flow, !.pre = mods.flow, !.op = "apply",
                            !.exc = r.exc,
                            !.prev_ok = (mods.op = "apply" /\ mods.exc = NoErr)]
    /\ UNCHANGED <<tools, flow_definition, auto_login, auto_registration,
                   authorizers, cfg, pub, last, poll>>

NextMod ==
    \/ ConstructFlowModifiers
    \/ ApplyModifiers

SpecMod == InitMod /\ [][NextMod]_vars

-----------------------------------------------------------------------------
(* generic_set_modifier on its own: one call on any item, name and value.  *)

\* The dicts generic_set_modifier is handed: a call task, a flow state, a
\* dict that holds the key in the one form, the other, or both
SetItems ==
    {EmptyDict, Task.d, ActionState(1), PathState,
     ("endpoint" :> Str("literal")) @@ ("payload.$" :> Str("$.input")),
     ("endpoint" :> Str("literal")) @@ ("endpoint.$" :> Str("$.input.funcx_endpoint"))
        @@ ("InputPath" :> Number("1")) @@ ("InputPath.$" :> Str("$.input"))}

\* The values it is handed: paths, plain texts, names of functions and of
\* states, functions configured and not, a number, a list
SetValues ==
    {Str("$.x"), Str("$."), Str("$x"), Str(""), Str("ep-uuid"),
     Str("f"), Str("g"), Str("F"), Str("G"),
     FuncValue(Func("f", "b1")), FuncValue(Func("f", "b2")), FuncValue(Func("g", "b1")),
     FuncValue(Func("h", "b1")), Number("5"), List(<<Task>>)}

\* The call of generic_set_modifier at hand, before it is made
NewSetCall(item, mod_name, mod_value) ==
    [phase |-> "idle", op |-> "none", item |-> item, mod_name |-> mod_name,
     mod_value |-> mod_value, result |-> item]

InitSet ==
    /\ tools \in ModTools
    /\ flow_definition = "flow_v1"
    /\ auto_login = TRUE
    /\ auto_registration = TRUE
    /\ authorizers = GLADIER_SCOPES
    /\ cfg = EmptyDict
    /\ pub = EmptyDict
    /\ last = NoOp
    /\ \E item \in SetItems, mod_name \in supported_modifiers, mod_value \in SetValues :
            mods = NewSetCall(item, mod_name, mod_value)
    /\ poll = IdlePoll

\* generic_set_modifier(item, mod_name, mod_value)
GenericSetModifier ==
    /\ mods.phase = "idle"
    /\ mods' = [mods EXCEPT !.phase = "done", !.op = "generic_set_modifier",
                            !.result = generic_set_modifier(tools, mods.item, mods.mod_name,
                                                            mods.mod_value)]
    /\ UNCHANGED <<tools, flow_definition, auto_login, auto_registration,
                   authorizers, cfg, pub, last, poll>>

NextSet == GenericSetModifier

SpecSet == InitSet /\ [][NextSet]_vars

-----------------------------------------------------------------------------
(* Registrations: register_funcx_function, register_flow,                  *)
(* get_funcx_function_ids and get_flow_id called in any order, any number  *)
(* of times, on a config that starts empty or with the complete record of  *)
(* a flow registered earlier.                                              *)

InitReg ==
    /\ tools \in ToolLists
    /\ flow_definition \in FlowDefinitions
    /\ auto_login = TRUE
    /\ auto_registration \in BOOLEAN
    /\ authorizers \in BasicAuthorizers
    /\ cfg \in {c \in StoredFlowRecords :
                  c = EmptyDict \/ DOMAIN c = {"flow_id", "flow_scope", "flow_checksum"}}
    /\ pub = EmptyDict
    /\ last = NoOp
    /\ mods = IdleMods
    /\ poll = IdlePoll

\* register_funcx_function(function), for a function of the tools
RegisterFuncxFunction ==
    \E i \in DOMAIN AllFuncs(tools) :
        \E o \in register_funcx_function(cfg, authorizers, AllFuncs(tools)[i]) :
            Finish("register_funcx_function", NoInput, FALSE, o)

RegisterFlow ==
    \E o \in register_flow(cfg, authorizers, flow_definition) :
        Finish("register_flow", NoInput, FALSE, o)

NextReg ==
    \/ RegisterFuncxFunction
    \/ RegisterFlow
    \/ GetFuncxFunctionIds
    \/ GetFlowId

SpecReg == InitReg /\ [][NextReg]_vars

-----------------------------------------------------------------------------
(* get_input: the functions registered, any override of the input keys in  *)
(* the private and in the public section.                                  *)

\* What a config section holds for the input keys k and r: nothing, an
\* empty value, a value
Overrides(v) ==
    {Prune([k |-> a, r |-> b]) : a \in {None, "", v \o "_k"}, b \in {None, "", v \o "_r"}}

InitInput ==
    /\ tools \in ToolLists
    /\ flow_definition = "flow_v1"
    /\ auto_login = TRUE
    /\ auto_registration \in BOOLEAN
    /\ authorizers = GLADIER_SCOPES
    /\ \E private \in Overrides("priv") : cfg = Update(RegisteredFunctions(tools), private)
    /\ pub \in Overrides("pub")
    /\ last = NoOp
    /\ mods = IdleMods
    /\ poll = IdlePoll

GetInput ==
    \E o \in get_input(tools, cfg, pub, authorizers, auto_registration) :
        Finish("get_input", NoInput, TRUE, o)

NextInput == GetInput

SpecInput == InitInput /\ [][NextInput]_vars

-----------------------------------------------------------------------------
(* progress: the first get_status, then the loop of get_status and         *)
(* callback until the status is SUCCEEDED or FAILED.                       *)

MaxPolls == 3       \* the run is SUCCEEDED or FAILED by its MaxPolls-th fetch

InitPoll ==
    /\ tools \in {ts \in ToolLists : Len(ts) = 1}
    /\ flow_definition \in FlowDefinitions
    /\ auto_login = TRUE
    /\ auto_registration \in BOOLEAN
    /\ authorizers \in {GLADIER_SCOPES, GLADIER_SCOPES \ {MANAGE_FLOWS_SCOPE}}
    /\ cfg \in StoredFlowRecords
    /\ pub = EmptyDict
    /\ last = NoOp
    /\ mods = IdleMods
    /\ poll = IdlePoll

\* Line 686: status = self.get_status(action_id), before the loop
ProgressStart ==
    /\ poll.pc = "idle"
    /\ \E r \in get_status(cfg, authorizers, auto_registration, flow_definition) :
          /\ cfg' = r.cfg
          /\ poll' = IF r.exc = NoErr
                     THEN [poll EXCEPT !.pc = "loop", !.status = r.status,
                                       !.fetched = Append(@, r.status)]
                     ELSE [poll EXCEPT !.pc = "raised", !.exc = r.exc]
    /\ UNCHANGED <<tools, flow_definition, auto_login, auto_registration,
                   authorizers, pub, last, mods>>

\* The loop body as it would be if the status were not tested before it
ProgressPoll_StatusNotTested ==
    /\ poll.pc = "loop"
    /\ Len(poll.fetched) < MaxPolls
    /\ \E r \in get_status(cfg, authorizers, auto_registration, flow_definition) :
          /\ cfg' = r.cfg
          /\ poll' = IF r.exc = NoErr
                     THEN [poll EXCEPT !.status = r.status,
                                       !.fetched = Append(@, r.status),
                                       !.delivered = Append(@, r.status)]
                     ELSE [poll EXCEPT !.pc = "raised", !.exc = r.exc]
    /\ UNCHANGED <<tools, flow_definition, auto_login, auto_registration,
                   authorizers, pub, last, mods>>

\* Lines 687-689: the status is none of SUCCEEDED and FAILED, so the body
\* runs: get_status again, then callback(status)
ProgressPoll ==
    /\ poll.pc = "loop"
    /\ poll.status \notin {"SUCCEEDED", "FAILED"}
    /\ Len(poll.fetched) < MaxPolls
    /\ \E r \in get_status(cfg, authorizers, auto_registration, flow_definition) :
          /\ r.exc = NoErr /\ Len(poll.fetched) + 1 = MaxPolls
                => r.status \in {"SUCCEEDED", "FAILED"}
          /\ cfg' = r.cfg
          /\ poll' = IF r.exc = NoErr
                     THEN [poll EXCEPT !.status = r.status,
                                       !.fetched = Append(@, r.status),
                                       !.delivered = Append(@, r.status)]
                     ELSE [poll EXCEPT !.pc = "raised", !.exc = r.exc]
    /\ UNCHANGED <<tools, flow_definition, auto_login, auto_registration,
                   authorizers, pub, last, mods>>

\* Line 687: the status is SUCCEEDED or FAILED, the loop ends and progress
\* returns
ProgressReturn ==
    /\ poll.pc = "loop"
    /\ poll.status \in {"SUCCEEDED", "FAILED"}
    /\ poll' = [poll EXCEPT !.pc = "returned"]
    /\ UNCHANGED <<tools, flow_definition, auto_login, auto_registration,
                   authorizers, cfg, pub, last, mods>>

NextPoll ==
    \/ ProgressStart
    \/ ProgressPoll
    \/ ProgressReturn

SpecPoll == InitPoll /\ [][NextPoll]_vars

\* progress runs on: the calling thread is never suspended for good
SpecPollFair == SpecPoll /\ WF_vars(NextPoll)

-----------------------------------------------------------------------------
(* The client in use: registrations and runs in any order, any number of   *)
(* times, then a call of progress.                                         *)

InitUse ==
    /\ tools \in {ts \in RunToolLists : Len(ts) = 1}
    /\ flow_definition \in FlowDefinitions
    /\ auto_login = TRUE
    /\ auto_registration \in BOOLEAN
    /\ authorizers = GLADIER_SCOPES
    /\ cfg \in {c \in StoredFlowRecords :
                  c = EmptyDict \/ DOMAIN c = {"flow_id", "flow_scope", "flow_checksum"}}
    /\ pub = EmptyDict
    /\ last = NoOp
    /\ mods = IdleMods
    /\ poll = IdlePoll

NextUse ==
    \/ poll.pc = "idle" /\ NextReg
    \/ poll.pc = "idle" /\ NextRun
    \/ NextPoll

SpecUse == InitUse /\ [][NextUse]_vars

-----------------------------------------------------------------------------
(* What the last operation did.                                            *)

CallsNamed(name) == SelectSeq(last.calls, LAMBDA c : c.name = name)

RunCalls == CallsNamed("run_flow")

LoginCalls == CallsNamed("login")

\* The calls made after the first run-start call
CallsAfterFirstRun ==
    LET first == CHOOSE i \in DOMAIN last.calls :
                    /\ last.calls[i].name = "run_flow"
                    /\ \A j \in 1..(i - 1) : last.calls[j].name # "run_flow"
    IN  SubSeq(last.calls, first + 1, Len(last.calls))

\* A scope-mismatch error of the flows service
ScopeMismatch(err) ==
    err.type = "GlobusAPIError" /\ Contains(err.msg, "unable to get tokens for scopes")

\* The last operation was a run_flow whose first run-start call failed
FirstRunFailed ==
    last.op = "run_flow" /\ RunCalls # <<>> /\ ~RunCalls[1].ok

\* The last operation returned
LastReturned == last.exc = NoErr

\* A register_function call was made for func
FuncCalled(func) ==
    \E i \in DOMAIN last.calls :
        /\ last.calls[i].name = "register_function"
        /\ last.calls[i].arg = func.name \o ":" \o func.body

\* The first register_function call for a function named as func was made
\* for func: for the first function of a name, the call was made at its own
\* turn, on the record as stored when the operation began
CalledAtItsTurn(func) ==
    \E i \in DOMAIN last.calls :
        /\ last.calls[i].name = "register_function"
        /\ last.calls[i].arg = func.name \o ":" \o func.body
        /\ \A j \in 1..(i - 1) :
              ~(/\ last.calls[j].name = "register_function"
                /\ StartsWith(last.calls[j].arg, func.name \o ":"))

\* The functions whose stored record the last operation found as it was
\* when the operation began: no earlier function shares their name
FirstOfName ==
    LET funcs == AllFuncs(tools) IN
    {funcs[i] : i \in {k \in DOMAIN funcs :
                          \A j \in 1..(k - 1) : funcs[j].name # funcs[k].name}}

DistinctNames ==
    LET funcs == AllFuncs(tools) IN
    \A i, j \in DOMAIN funcs : i # j => funcs[i].name # funcs[j].name

IdStored(c, func) == get_funcx_function_name(func) \in DOMAIN c

ChecksumStored(c, func) == get_funcx_function_checksum_name(func) \in DOMAIN c

ChecksumEqual(c, func) ==
    Get(c, get_funcx_function_checksum_name(func)) = get_funcx_function_checksum(func)

FlowChecksumEqual(c) == Get(c, "flow_checksum") = get_flow_checksum(flow_definition)

FlowIdAndScopeStored(c) == "flow_id" \in DOMAIN c /\ "flow_scope" \in DOMAIN c

-----------------------------------------------------------------------------
(* Claims on run_flow, under SpecRun.                                      *)

\* C1: when the first run-start call of run_flow fails with a scope-mismatch
\* error and auto_login is True, what follows is exactly one forced login
\* that requests only the stored flow_scope and then one retried run-start
\* call; an error of the retried call is the error run_flow raises.
C1_ScopeMismatchRetriedOnce ==
    (FirstRunFailed /\ ScopeMismatch(RunCalls[1].err) /\ auto_login) =>
        LET after == CallsAfterFirstRun IN
        /\ Len(after) = 2
        /\ after[1].name = "login"
        /\ after[1].force = TRUE
        /\ after[1].scopes = {Get(cfg, "flow_scope")}
        /\ after[2].name = "run_flow"
        /\ (~after[2].ok => last.exc = after[2].err)

C1_Witness ==
    /\ FirstRunFailed /\ ScopeMismatch(RunCalls[1].err) /\ auto_login
    /\ Len(LoginCalls) = 1
    /\ Len(RunCalls) = 2
    /\ ~RunCalls[2].ok
    /\ RunCalls[2].err.msg = NotJsonMessage
    /\ last.exc = RunCalls[2].err

\* C2: when the first run-start call fails with a scope-mismatch error and
\* auto_login is False, run_flow raises AuthException naming the stored
\* flow_scope, with no login and no second run-start call.
C2_ScopeMismatchNoLogin ==
    (FirstRunFailed /\ ScopeMismatch(RunCalls[1].err) /\ ~auto_login) =>
        /\ last.exc.type = "AuthException"
        /\ last.exc.scopes = {Get(cfg, "flow_scope")}
        /\ LoginCalls = <<>>
        /\ Len(RunCalls) = 1

C2_Witness ==
    /\ FirstRunFailed /\ ScopeMismatch(RunCalls[1].err) /\ ~auto_login
    /\ last.exc.type = "AuthException"
    /\ last.exc.scopes = {ScopeOf("id1")}

\* C3: every failure of the run-start call that is not a scope-mismatch
\* error is raised by run_flow as it is, with no login and no retried
\* run-start call after it.
C3_OtherErrorsUnchanged ==
    (FirstRunFailed /\ ~ScopeMismatch(RunCalls[1].err)) =>
        /\ last.exc = RunCalls[1].err
        /\ CallsAfterFirstRun = <<>>

-----------------------------------------------------------------------------
(* Claims on the registration cache, under Spec.                           *)

C5_NoAutoRegistrationFunctions ==
    (last.op = "get_funcx_function_ids" /\ ~auto_registration) =>
        LET funcs == AllFuncs(tools)
            bad == {i \in DOMAIN funcs : ~(/\ IdStored(last.cfg, funcs[i])
                                           /\ ChecksumEqual(last.cfg, funcs[i]))}
        IN  /\ last.calls = <<>>
            /\ cfg = last.cfg
            /\ bad = {} => LastReturned
            /\ bad # {} =>
                 LET func == funcs[CHOOSE i \in bad : \A j \in bad : i <= j] IN
                 IF IdStored(last.cfg, func) /\ ChecksumStored(last.cfg, func)
                 THEN last.exc.type = "FunctionObsolete"
                 ELSE last.exc.type = "RegistrationException"

C5_Witness ==
    /\ last.op = "get_funcx_function_ids" /\ ~auto_registration
    /\ last.calls = <<>>
    /\ last.exc.type = "RegistrationException"
    /\ IdStored(cfg, AllFuncs(tools)[1]) /\ ~ChecksumStored(cfg, AllFuncs(tools)[1])

\* C6: with auto_registration False, get_flow_id raises NoFlowRegistered when
\* flow_id or flow_scope is not stored and FlowObsolete when both are stored
\* and the stored flow_checksum differs from the current one; it makes no
\* deploy_flow or update_flow call and leaves the record as it was.
C6_NoAutoRegistrationFlow ==
    (last.op = "get_flow_id" /\ ~auto_registration) =>
        /\ last.calls = <<>>
        /\ cfg = last.cfg
        /\ ~FlowIdAndScopeStored(last.cfg) => last.exc.type = "NoFlowRegistered"
        /\ (FlowIdAndScopeStored(last.cfg) /\ ~FlowChecksumEqual(last.cfg)) =>
               last.exc.type = "FlowObsolete"

C6_Witness ==
    /\ last.op = "get_flow_id" /\ ~auto_registration
    /\ "flow_id" \in DOMAIN cfg /\ "flow_scope" \notin DOMAIN cfg
    /\ last.exc.type = "NoFlowRegistered"

\* C7: with auto_registration True, whenever get_flow_id returns, from any
\* stored record, the record holds a flow_id, a flow_scope and the checksum
\* of the current definition, and the id returned is the stored flow_id.
C7_FlowValidAfterGetFlowId ==
    (last.op = "get_flow_id" /\ auto_registration /\ LastReturned) =>
        /\ FlowIdAndScopeStored(cfg)
        /\ FlowChecksumEqual(cfg)
        /\ last.id = Get(cfg, "flow_id")

C7_Witness ==
    /\ last.op = "get_flow_id" /\ auto_registration /\ LastReturned
    /\ Len(last.calls) = 1
    /\ last.calls[1].name = "update_flow" /\ last.calls[1].ok
    /\ "flow_scope" \notin DOMAIN cfg

\* C8: with auto_registration True and functions of pairwise distinct names,
\* whenever get_funcx_function_ids returns every function has its id and
\* its current checksum stored, the returned mapping holds the stored id
\* under the function's id name, and that id is the one just registered when
\* the record was absent or obsolete and the one stored before otherwise.
C8_FunctionsValidAfterGetIds ==
    (/\ last.op = "get_funcx_function_ids" /\ auto_registration /\ LastReturned
     /\ DistinctNames) =>
        \A i \in DOMAIN AllFuncs(tools) :
            LET func == AllFuncs(tools)[i]
                fid_name == get_funcx_function_name(func)
            IN  /\ IdStored(cfg, func)
                /\ ChecksumEqual(cfg, func)
                /\ Get(last.ids, fid_name) = Get(cfg, fid_name)
                /\ IF IdStored(last.cfg, func) /\ ChecksumEqual(last.cfg, func)
                   THEN Get(cfg, fid_name) = Get(last.cfg, fid_name) /\ ~FuncCalled(func)
                   ELSE \E k \in DOMAIN last.calls :
                           /\ last.calls[k].name = "register_function"
                           /\ last.calls[k].arg = func.name \o ":" \o func.body
                           /\ last.calls[k].ok
                           /\ last.calls[k].val = Get(cfg, fid_name)

C8_Witness ==
    /\ last.op = "get_funcx_function_ids" /\ auto_registration /\ LastReturned
    /\ DistinctNames
    /\ Len(AllFuncs(tools)) = 2
    /\ Len(last.calls) = 1
    /\ Get(last.cfg, "f_funcx_id") = "id1"
    /\ Get(cfg, "f_funcx_id") = "id2"
    /\ Get(cfg, "g_funcx_id") = "id1"

-----------------------------------------------------------------------------
(* Claims on the flow modifiers, under SpecMod.                            *)

\* The directive key resolves to a configured function: it is the name of
\* one, or one of them
Resolves(name) ==
    \/ IsStr(name) /\ name.s \in FuncNamesOf(tools)
    \/ name.t = "func" /\ \E i \in DOMAIN AllFuncs(tools) : AllFuncs(tools)[i] = name.fn

\* The modifiers are not a dict, or hold a key that resolves to no function,
\* or hold a modifier kind that is not supported
InvalidModifiers ==
    \/ ~mods.modifiers.is_dict
    \/ \E i \in DOMAIN mods.modifiers.items :
          \/ ~Resolves(mods.modifiers.items[i].name)
          \/ \E j \in DOMAIN mods.modifiers.items[i].mods :
                mods.modifiers.items[i].mods[j].kind \notin
                    {"endpoint", "payload", "tasks", "InputPath", "ResultPath", "WaitTime"}

\* C9: constructing FlowModifiers with modifiers that are not a dict, or with
\* a directive key that resolves to no configured function, or with a
\* modifier kind outside the six supported ones, raises FlowModifierException;
\* the flow is as it was before the construction, and stays so: no directive
\* of the set is ever applied.
C9_InvalidModifiersRejected ==
    /\ (mods.op = "construct" /\ InvalidModifiers) =>
          /\ mods.exc.type = "FlowModifierException"
          /\ mods.phase = "failed"
          /\ mods.flow = mods.pre
    /\ InvalidModifiers => mods.op # "apply"

C9_Witness ==
    /\ mods.op = "construct"
    /\ mods.exc.type = "FlowModifierException"
    /\ mods.flow = mods.pre
    /\ Len(mods.modifiers.items) = 2
    /\ Resolves(mods.modifiers.items[1].name)
    /\ mods.modifiers.items[1].mods[1].kind = "endpoint"
    /\ Resolves(mods.modifiers.items[2].name)
    /\ mods.modifiers.items[2].mods[1].kind = "Bogus"

\* C10: for every validated modifier set and every flow on which
\* apply_modifiers succeeds, a second apply_modifiers on the result succeeds
\* too and leaves the flow equal to the result of the first.
C10_ApplyIdempotent ==
    (mods.op = "apply" /\ mods.prev_ok) =>
        /\ mods.exc = NoErr
        /\ mods.flow = mods.pre

\* The second application of an InputPath modifier that succeeded on a state
\* with Parameters leaves another flow than the first
C10_Witness ==
    /\ mods.op = "apply" /\ mods.prev_ok
    /\ mods.exc = NoErr
    /\ mods.flow # mods.pre
    /\ Len(mods.modifiers.items) = 1
    /\ Len(mods.modifiers.items[1].mods) = 1
    /\ mods.modifiers.items[1].mods[1].kind = "InputPath"

\* The state a directive of the modifiers is aimed at
TargetOf(i) == get_flow_state_name(tools, mods.modifiers.items[i].name)

\* The flow state has a Parameters block with a list of n call tasks
HasTasks(state, n) ==
    /\ "Parameters" \in DOMAIN state
    /\ state["Parameters"].t = "dict"
    /\ "tasks" \in DOMAIN state["Parameters"].d
    /\ state["Parameters"].d["tasks"].t = "list"
    /\ Len(state["Parameters"].d["tasks"].items) = n

\* The call tasks of a flow state
TasksOf(state) == state["Parameters"].d["tasks"].items

\* Scenario A: apply_modifiers with the one directive {f: {endpoint: 'ep-uuid'}}
\* on a flow whose target state has one call task
ScenarioA ==
    /\ mods.op = "apply"
    /\ Len(mods.modifiers.items) = 1
    /\ mods.modifiers.items[1].mods = <<Modifier("endpoint", Str("ep-uuid"))>>
    /\ HasTasks(mods.pre[TargetOf(1)], 1)

\* C11, as the spec states it: in scenario A the call task ends with the
\* plain key endpoint holding 'ep-uuid' and without the key endpoint.$.
C11_EndpointLiteral ==
    ScenarioA =>
        /\ HasTasks(mods.flow[TargetOf(1)], 1)
        /\ LET task == TasksOf(mods.flow[TargetOf(1)])[1].d IN
           /\ "endpoint" \in DOMAIN task
           /\ task["endpoint"] = Str("ep-uuid")
           /\ "endpoint.$" \notin DOMAIN task

\* C11, amended: in scenario A apply_modifiers returns and the call task ends
\* with the key endpoint.$ holding '$.input.ep-uuid', without the plain key
\* endpoint, and with its other keys as they were.
C11_EndpointInputReference ==
    ScenarioA =>
        /\ mods.exc = NoErr
        /\ HasTasks(mods.flow[TargetOf(1)], 1)
        /\ LET task == TasksOf(mods.flow[TargetOf(1)])[1].d
               before == TasksOf(mods.pre[TargetOf(1)])[1].d
           IN  /\ "endpoint.$" \in DOMAIN task
               /\ task["endpoint.$"] = Str("$.input.ep-uuid")
               /\ "endpoint" \notin DOMAIN task
               /\ Remove(task, {"endpoint.$"}) = Remove(before, {"endpoint", "endpoint.$"})

C11_Witness ==
    /\ ScenarioA
    /\ ~mods.prev_ok
    /\ TasksOf(mods.pre[TargetOf(1)])[1].d["endpoint.$"] = Str("$.input.funcx_endpoint")
    /\ TasksOf(mods.flow[TargetOf(1)])[1].d["endpoint.$"] = Str("$.input.ep-uuid")

-----------------------------------------------------------------------------
(* Claims on generic_set_modifier, under SpecSet.                          *)

\* The derived state names of the configured functions
StateNamesOf(ts) ==
    {get_funcx_flow_state_name(AllFuncs(ts)[i]) : i \in DOMAIN AllFuncs(ts)}

\* generic_set_modifier was called
SetCalled == mods.op = "generic_set_modifier"

\* The call wrote value under the reference-suffixed key, and not the plain key
WroteReference(value) ==
    /\ (mods.mod_name \o ".$") \in DOMAIN mods.result
    /\ mods.result[mods.mod_name \o ".$"] = value
    /\ mods.mod_name \notin DOMAIN mods.result

\* C12: for a text value that does not start with "$." and is neither the
\* name of a configured function nor a derived state name,
\* generic_set_modifier writes exactly "$.input.<value>".
C12_PlainTextBecomesInputReference ==
    (/\ SetCalled
     /\ IsStr(mods.mod_value)
     /\ ~StartsWith(mods.mod_value.s, "$.")
     /\ mods.mod_value.s \notin FuncNamesOf(tools)
     /\ mods.mod_value.s \notin StateNamesOf(tools)) =>
        WroteReference(Str("$.input." \o mods.mod_value.s))

C12_Witness ==
    /\ SetCalled
    /\ mods.mod_value = Str("$x")
    /\ mods.mod_name = "payload"
    /\ "payload.$" \in DOMAIN mods.item
    /\ "payload.$" \in DOMAIN mods.result
    /\ mods.result["payload.$"] = Str("$.input.$x")

\* The first configured function, in tool order, that is named n
FirstNamed(ts, n) ==
    AllFuncs(ts)[CHOOSE i \in DOMAIN AllFuncs(ts) :
                    /\ AllFuncs(ts)[i].name = n
                    /\ \A j \in 1..(i - 1) : AllFuncs(ts)[j].name # n]

\* C13: for a value that identifies a configured function - its name, the
\* function itself, or its derived state name - generic_set_modifier writes
\* "$.<stateName>.details.results" under the key "<kind>.$", stateName being
\* the derived state name of that function, the first of its name in tool
\* order.
C13_FunctionBecomesResultPath ==
    /\ (SetCalled /\ IsStr(mods.mod_value) /\ mods.mod_value.s \in FuncNamesOf(tools)) =>
          WroteReference(Str("$."
              \o get_funcx_flow_state_name(FirstNamed(tools, mods.mod_value.s))
              \o ".details.results"))
    /\ (/\ SetCalled /\ mods.mod_value.t = "func"
        /\ \E i \in DOMAIN AllFuncs(tools) : AllFuncs(tools)[i] = mods.mod_value.fn) =>
          WroteReference(Str("$." \o get_funcx_flow_state_name(mods.mod_value.fn)
                             \o ".details.results"))
    /\ (/\ SetCalled /\ IsStr(mods.mod_value)
        /\ mods.mod_value.s \notin FuncNamesOf(tools)
        /\ mods.mod_value.s \in StateNamesOf(tools)) =>
          WroteReference(Str("$." \o mods.mod_value.s \o ".details.results"))

C13_Witness ==
    /\ SetCalled
    /\ mods.mod_value = FuncValue(Func("f", "b2"))
    /\ mods.mod_name = "payload"
    /\ "payload.$" \in DOMAIN mods.result
    /\ mods.result["payload.$"] = Str("$.F.details.results")

-----------------------------------------------------------------------------
(* Further claims on the flow modifiers, under SpecMod.                    *)

\* Directive i holds an InputPath modifier
HasInputPath(i) ==
    \E j \in DOMAIN mods.modifiers.items[i].mods :
        mods.modifiers.items[i].mods[j].kind = "InputPath"

\* The last apply_modifiers applied the InputPath modifier of directive i: it
\* returned, or directive i is the first and its InputPath modifier is the
\* first of it or the one that raised
InputPathApplied(i) ==
    /\ mods.op = "apply"
    /\ i \in DOMAIN mods.modifiers.items
    /\ HasInputPath(i)
    /\ \/ mods.exc = NoErr
       \/ /\ i = 1
          /\ \/ mods.modifiers.items[1].mods[1].kind = "InputPath"
             \/ mods.exc = KeyError("InputPath.$")

\* C14: once an InputPath modifier is applied to a state - whatever its
\* value, and whether or not the state had Parameters - the state has no
\* Parameters key and exactly one of the keys InputPath and InputPath.$.
C14_InputPathReplacesParameters ==
    \A i \in DOMAIN mods.modifiers.items :
        InputPathApplied(i) =>
            LET state == mods.flow[TargetOf(i)] IN
            /\ "Parameters" \notin DOMAIN state
            /\ ("InputPath" \in DOMAIN state) # ("InputPath.$" \in DOMAIN state)

C14_Witness ==
    /\ InputPathApplied(1)
    /\ mods.exc = NoErr
    /\ ~mods.prev_ok
    /\ "Parameters" \in DOMAIN mods.pre[TargetOf(1)]
    /\ mods.modifiers.items[1].mods = <<Modifier("InputPath", FuncValue(Func("g", "b1")))>>
    /\ "Parameters" \notin DOMAIN mods.flow[TargetOf(1)]
    /\ "InputPath.$" \notin DOMAIN mods.flow[TargetOf(1)]
    /\ mods.flow[TargetOf(1)]["InputPath"] = Str("$.G.details.results")

\* The first configured function, in tool order, whose derived state name is n
FirstOfState(ts, n) ==
    AllFuncs(ts)[CHOOSE i \in DOMAIN AllFuncs(ts) :
                    /\ get_funcx_flow_state_name(AllFuncs(ts)[i]) = n
                    /\ \A j \in 1..(i - 1) :
                          get_funcx_flow_state_name(AllFuncs(ts)[j]) # n]

\* The function an identifier stands for: by its name, as the function
\* itself, or by its derived state name; NoFunc for any other identifier
IdentifiedFunction(ts, identifier) ==
    IF IsStr(identifier) /\ identifier.s \in FuncNamesOf(ts)
    THEN FirstNamed(ts, identifier.s)
    ELSE IF identifier.t = "func"
            /\ \E i \in DOMAIN AllFuncs(ts) : AllFuncs(ts)[i] = identifier.fn
    THEN identifier.fn
    ELSE IF IsStr(identifier) /\ identifier.s \in StateNamesOf(ts)
    THEN FirstOfState(ts, identifier.s)
    ELSE NoFunc

\* C15: get_function returns the function for its name, for the function
\* itself and for its derived state name, and None for any other identifier;
\* so modifiers whose keys each identify a function in one of these ways,
\* with supported kinds only, pass the validation of the constructor.
C15_LookupByNameDescriptorOrState ==
    (mods.op = "construct" /\ mods.modifiers.is_dict) =>
        /\ \A i \in DOMAIN mods.modifiers.items :
              get_function(tools, mods.modifiers.items[i].name)
                  = IdentifiedFunction(tools, mods.modifiers.items[i].name)
        /\ (\A i \in DOMAIN mods.modifiers.items :
              /\ IdentifiedFunction(tools, mods.modifiers.items[i].name) # NoFunc
              /\ \A j \in DOMAIN mods.modifiers.items[i].mods :
                    mods.modifiers.items[i].mods[j].kind \in supported_modifiers)
           => mods.exc = NoErr

\* A directive keyed by the derived state name of a configured function is
\* rejected by the constructor
C15_Witness ==
    /\ mods.op = "construct"
    /\ mods.modifiers.is_dict
    /\ Len(mods.modifiers.items) = 1
    /\ mods.modifiers.items[1].name = Str("G")
    /\ "G" \in StateNamesOf(tools)
    /\ mods.modifiers.items[1].mods = <<Modifier("endpoint", Str("ep-uuid"))>>
    /\ mods.exc.type = "FlowModifierException"

-----------------------------------------------------------------------------
(* Claims on progress, under SpecPoll.                                     *)

\* C16: when progress has returned, the statuses handed to the callback are
\* the statuses get_status fetched, in the same order, the first fetched
\* status and the terminal one included.
C16_EveryFetchedStatusDelivered ==
    poll.pc = "returned" => poll.delivered = poll.fetched

\* progress returned after two fetches, and the callback saw the second only
C16_Witness ==
    /\ poll.pc = "returned"
    /\ poll.fetched = <<"ACTIVE", "SUCCEEDED">>
    /\ poll.delivered = <<"SUCCEEDED">>

-----------------------------------------------------------------------------
(* Claims on get_input, under SpecInput.                                   *)

\* The keys get_input looks up in the config sections for a tool
InputKeysOf(tool) ==
    DOMAIN tool.flow_input \cup {tool.required_input[j] : j \in DOMAIN tool.required_input}

GetInputReturned == last.op = "get_input" /\ last.exc = NoErr

\* The default of the last tool, in list order, whose flow_input defines k
LastDefault(ts, k) ==
    IF \E i \in DOMAIN ts : k \in DOMAIN ts[i].flow_input
    THEN ts[CHOOSE i \in DOMAIN ts :
                /\ k \in DOMAIN ts[i].flow_input
                /\ \A j \in (i + 1)..Len(ts) : k \notin DOMAIN ts[j].flow_input].flow_input[k]
    ELSE None

\* C17 (as stated): for every key of a tool's flow_input or required_input,
\* get_input()['input'] holds the public section's value when set there,
\* else the private section's value when set there, else that tool's
\* default, for any list of tools.
C17_PrecedenceOverToolDefault ==
    GetInputReturned =>
        \A i \in DOMAIN tools : \A k \in InputKeysOf(tools[i]) :
            "input" \in DOMAIN last.ids
            /\ Get(last.ids.input, k)
                 = IF ~Falsy(Get(pub, k)) THEN pub[k]
                   ELSE IF ~Falsy(Get(last.cfg, k)) THEN last.cfg[k]
                   ELSE Get(tools[i].flow_input, k)

\* C17 (amended): for every key of a tool's flow_input or required_input,
\* get_input()['input'] holds the public section's value when a non-empty
\* value is set there, else the private section's non-empty value, else the
\* default of the last tool in list order that defines the key in its
\* flow_input; the key is absent when no tool defines a default.
C17_PrecedenceOverLastDefault ==
    GetInputReturned =>
        \A i \in DOMAIN tools : \A k \in InputKeysOf(tools[i]) :
            "input" \in DOMAIN last.ids
            /\ Get(last.ids.input, k)
                 = IF ~Falsy(Get(pub, k)) THEN pub[k]
                   ELSE IF ~Falsy(Get(last.cfg, k)) THEN last.cfg[k]
                   ELSE LastDefault(tools, k)

\* Two tools define k with different defaults and no section overrides it:
\* the later default is the value, and r, a key of neither tool, is absent
C17_Witness ==
    /\ GetInputReturned
    /\ Len(tools) = 2
    /\ Get(tools[1].flow_input, "k") = "default_a"
    /\ Get(tools[2].flow_input, "k") = "default_c"
    /\ Falsy(Get(pub, "k")) /\ Falsy(Get(last.cfg, "k"))
    /\ "input" \in DOMAIN last.ids
    /\ Get(last.ids.input, "k") = "default_c"
    /\ "r" \notin DOMAIN last.ids.input

-----------------------------------------------------------------------------
(* Further claims on run_flow, under SpecRun.                              *)

\* The input of the last run_flow as merged from the defaults (the tools'
\* defaults and the overrides of the config sections, when use_defaults)
\* and from the caller's input
MergedInput ==
    Update(IF last.use_defaults THEN ToolInput(tools, 1, EmptyDict, last.cfg, pub)
           ELSE EmptyDict,
           IF last.flow_input.given /\ "input" \in DOMAIN last.flow_input.dict
           THEN last.flow_input.dict["input"] ELSE EmptyDict)

\* Some tool requires a key the merged input lacks
RequiredInputMissing ==
    \E i \in DOMAIN tools : \E j \in DOMAIN tools[i].required_input :
        tools[i].required_input[j] \notin DOMAIN MergedInput

\* C18: a run_flow whose merged input lacks a key some tool requires raises
\* ConfigException before any remote call (no function registration, no
\* flow deploy or update, no login, no run-start) and leaves the stored
\* registration records as they were.
C18_MissingInputFailsFast ==
    (last.op = "run_flow" /\ RequiredInputMissing) =>
        /\ last.exc.type = "ConfigException"
        /\ last.calls = <<>>
        /\ cfg = last.cfg

\* A run_flow with defaults that lacks the required key r registered the
\* function and stored its id before it raised ConfigException
C18_Witness ==
    /\ last.op = "run_flow"
    /\ last.use_defaults
    /\ RequiredInputMissing
    /\ last.exc.type = "ConfigException"
    /\ last.exc.msg = "r"
    /\ CallsNamed("register_function") # <<>>
    /\ cfg # last.cfg

\* The scopes an authorizer is held for when call i of the last operation
\* is made, every login before it having granted what it requested
AuthorizersAt(i) ==
    last.auth \cup UNION {last.calls[j].scopes :
                            j \in {x \in 1..(i - 1) : last.calls[x].name = "login"}}

LoginsGranted ==
    \A i \in DOMAIN last.calls :
        last.calls[i].name = "login" => last.calls[i].val = "granted"

\* Every run-start call is made with an authorizer for each basic scope and
\* for the flow scope it is made for
RunStartsAuthorized ==
    (last.op = "run_flow" /\ LoginsGranted) =>
        \A i \in DOMAIN last.calls :
            last.calls[i].name = "run_flow" =>
                GLADIER_SCOPES \cup last.calls[i].scopes \subseteq AuthorizersAt(i)

\* The functions can be resolved and no remote call fails
RegistrationSucceeds ==
    /\ \/ auto_registration
       \/ \A i \in DOMAIN AllFuncs(tools) :
              FunctionRecordState(last.cfg, AllFuncs(tools)[i]) = "valid"
    /\ \A i \in DOMAIN last.calls : last.calls[i].ok

\* With complete input, a scope missing when run_flow begins ends it in
\* AuthException, the flow neither updated nor deployed nor started
MissingScopesRaiseAuth ==
    (/\ last.op = "run_flow"
     /\ last.use_defaults
     /\ ~RequiredInputMissing
     /\ RegistrationSucceeds
     /\ missing_authorizers(last.cfg, last.auth) # {}) =>
        /\ last.exc.type = "AuthException"
        /\ CallsNamed("update_flow") = <<>>
        /\ CallsNamed("deploy_flow") = <<>>
        /\ RunCalls = <<>>

\* A flow scope added by a deployment and not yet authorized: a login for
\* it precedes every run-start call when auto_login is True, and run_flow
\* raises AuthException without a run-start call when it is False
NewFlowScopeLogsIn ==
    last.op = "run_flow" =>
        \A i \in DOMAIN last.calls :
            (/\ last.calls[i].name = "deploy_flow"
             /\ last.calls[i].ok
             /\ ScopeOf(last.calls[i].val) \notin last.auth) =>
                IF auto_login
                THEN /\ \E j \in (i + 1)..Len(last.calls) :
                           /\ last.calls[j].name = "login"
                           /\ ScopeOf(last.calls[i].val) \in last.calls[j].scopes
                           /\ \A x \in 1..j : last.calls[x].name # "run_flow"
                ELSE /\ last.exc.type = "AuthException"
                     /\ RunCalls = <<>>

\* C19: where every login grants the scopes it requests, run_flow makes no
\* run-start call while a basic scope or the stored flow scope lacks an
\* authorizer; scopes missing before the flow id is resolved make it raise
\* AuthException without registering the flow; a flow scope added by the
\* registration is logged in for first when auto_login is True and makes it
\* raise AuthException when auto_login is False.
C19_NoRunStartWithoutAuthorizers ==
    /\ RunStartsAuthorized
    /\ MissingScopesRaiseAuth
    /\ NewFlowScopeLogsIn

\* run_flow without the funcX authorizer and with unregistered functions
\* ended in the KeyError of the funcX client, not in AuthException
C19_Witness ==
    /\ last.op = "run_flow"
    /\ last.use_defaults
    /\ ~RequiredInputMissing
    /\ auto_registration
    /\ funcx_scope \in missing_authorizers(last.cfg, last.auth)
    /\ last.calls = <<>>
    /\ last.exc = KeyError(funcx_scope)

\* The description the flows service gave with the answer of run-start call c
DescriptionOf(c) ==
    (CHOOSE f \in RunAnswers : f.action_id = c.val /\ f.status = c.status).description

\* C20: when a run-start call of run_flow, the first or the retried one,
\* answers with status FAILED, run_flow raises ConfigException with the
\* description the service gave, returns no run, and makes no call (no
\* run-start, no login) after that one.
C20_FailedRunRaisesConfigException ==
    last.op = "run_flow" =>
        \A i \in DOMAIN last.calls :
            (/\ last.calls[i].name = "run_flow"
             /\ last.calls[i].ok
             /\ last.calls[i].status = "FAILED") =>
                /\ last.exc.type = "ConfigException"
                /\ last.exc.msg = "Flow Failed: " \o DescriptionOf(last.calls[i])
                /\ last.flow = NoFlow
                /\ i = Len(last.calls)

\* The run-start call retried after the forced login answered FAILED
C20_Witness ==
    /\ last.op = "run_flow"
    /\ Len(RunCalls) = 2
    /\ ScopeMismatch(RunCalls[1].err)
    /\ RunCalls[2].ok
    /\ RunCalls[2].status = "FAILED"
    /\ last.exc.type = "ConfigException"
    /\ last.exc.msg = "Flow Failed: bad input"

-----------------------------------------------------------------------------
(* Claims on the registration writes, under SpecReg.                       *)

\* The calls of the last operation that were answered without error
OkCalls(name) == SelectSeq(last.calls, LAMBDA c : c.name = name /\ c.ok)

\* The config c with the record of func as registered under id
WithFunctionRecord(c, func, id) ==
    Put(Put(c, get_funcx_function_name(func), id),
        get_funcx_function_checksum_name(func), get_funcx_function_checksum(func))

\* The config c with the record of a flow deployed as id
WithDeployedFlow(c, id) ==
    Put(Put(Put(c, "flow_id", id), "flow_scope", ScopeOf(id)),
        "flow_checksum", get_flow_checksum(flow_definition))

\* No stored checksum is without its id
ChecksumsHaveIds ==
    /\ \A i \in DOMAIN AllFuncs(tools) :
          ChecksumStored(cfg, AllFuncs(tools)[i]) => IdStored(cfg, AllFuncs(tools)[i])
    /\ "flow_checksum" \in DOMAIN cfg => "flow_id" \in DOMAIN cfg

\* register_funcx_function left the id of the answer with the checksum of
\* the function, or left the config as it was
FunctionWriteAtomic ==
    last.op = "register_funcx_function" =>
        IF OkCalls("register_function") # <<>>
        THEN \E i \in DOMAIN AllFuncs(tools) :
                /\ OkCalls("register_function")[1].arg
                      = AllFuncs(tools)[i].name \o ":" \o AllFuncs(tools)[i].body
                /\ cfg = WithFunctionRecord(last.cfg, AllFuncs(tools)[i],
                                            OkCalls("register_function")[1].val)
        ELSE cfg = last.cfg

\* register_flow left the id, scope and checksum of the deployed flow, or
\* the checksum of the updated flow beside its id, or the config as it was
FlowWriteAtomic ==
    last.op = "register_flow" =>
        IF OkCalls("deploy_flow") # <<>>
        THEN cfg = WithDeployedFlow(last.cfg, OkCalls("deploy_flow")[1].val)
        ELSE IF OkCalls("update_flow") # <<>>
        THEN /\ ~Falsy(Get(cfg, "flow_id"))
             /\ cfg = Put(last.cfg, "flow_checksum", get_flow_checksum(flow_definition))
        ELSE cfg = last.cfg

\* C21: after register_funcx_function or register_flow has returned or
\* raised, the stored record holds the id together with the checksum of
\* what was just registered (and the scope of a newly deployed flow), or is
\* what it was before the call; after any sequence of registrations no
\* checksum is stored without its id.
C21_RegistrationWritesAtomic ==
    /\ FunctionWriteAtomic
    /\ FlowWriteAtomic
    /\ ChecksumsHaveIds

\* After a function was registered, register_flow found its stored flow
\* gone and deployed it anew: the new id is stored with its scope
C21_Witness ==
    /\ last.op = "register_flow"
    /\ Len(last.calls) = 2
    /\ last.calls[1].name = "update_flow" /\ ~last.calls[1].ok
    /\ last.calls[2].name = "deploy_flow" /\ last.calls[2].ok
    /\ Get(last.cfg, "flow_id") # Get(cfg, "flow_id")
    /\ Get(cfg, "flow_scope") = ScopeOf(cfg["flow_id"])
    /\ \E i \in DOMAIN AllFuncs(tools) : IdStored(cfg, AllFuncs(tools)[i])

\* Call i of the last operation is a remote registration call that failed
RegistrationFailed(i) ==
    /\ last.calls[i].name \in {"register_function", "update_flow", "deploy_flow"}
    /\ ~last.calls[i].ok

\* The failure of call i reached the caller as it was raised, and no call
\* was made after it
PropagatedUnchanged(i) ==
    /\ last.exc = last.calls[i].err
    /\ i = Len(last.calls)

RegistrationOperation ==
    last.op \in {"get_funcx_function_ids", "get_flow_id", "register_flow"}

-----------------------------------------------------------------------------
(* Claims on the input and the order of run_flow, under SpecRun.           *)

\* The dict the caller of the last run_flow gave under 'input'
CallerInput == last.flow_input.dict["input"]

\* Run-start call c was handed every value of the caller
HoldsCallerInput(c) ==
    /\ "input" \in DOMAIN c.input
    /\ \A k \in DOMAIN CallerInput :
          k \in DOMAIN c.input["input"] /\ c.input["input"][k] = CallerInput[k]

\* C23: the input handed to every run-start call holds the caller's value
\* for each key of the caller's flow_input['input'], with and without
\* use_defaults; without use_defaults it is exactly the caller's input, so
\* the caller's input is merged into the base input and never fails for
\* want of it.
C23_CallerInputPassed ==
    (/\ last.op = "run_flow"
     /\ last.flow_input.given
     /\ "input" \in DOMAIN last.flow_input.dict) =>
        /\ \A i \in DOMAIN RunCalls :
              /\ HoldsCallerInput(RunCalls[i])
              /\ ~last.use_defaults => RunCalls[i].input = last.flow_input.dict
        /\ last.exc # KeyError("input")

\* run_flow with the caller's input and without use_defaults ended in
\* KeyError('input') before any call
C23_Witness ==
    /\ last.op = "run_flow"
    /\ ~last.use_defaults
    /\ last.flow_input = GivenInput([input |-> "r" :> "mine"])
    /\ last.exc = KeyError("input")
    /\ last.calls = <<>>

\* The last run_flow got as far as get_flow_id: it raised one of its
\* exceptions, or called the flows service
ReachedFlowResolution ==
    /\ last.op = "run_flow"
    /\ \/ last.exc.type \in {"NoFlowRegistered", "FlowObsolete"}
       \/ CallsNamed("update_flow") # <<>>
       \/ CallsNamed("deploy_flow") # <<>>
       \/ RunCalls # <<>>

\* get_funcx_function_ids has gone through every function of the tools:
\* each is stored with an id and its current checksum
FunctionsResolved ==
    \A i \in DOMAIN AllFuncs(tools) :
        FunctionRecordState(cfg, AllFuncs(tools)[i]) = "valid"

\* C24: a run_flow that reaches get_flow_id has resolved the registration
\* of every function of its tools before, with use_defaults True and with
\* use_defaults False.
C24_FunctionsResolvedBeforeFlow ==
    ReachedFlowResolution => FunctionsResolved

\* run_flow without use_defaults started the run while the function of
\* its tool had no stored record
C24_Witness ==
    /\ last.op = "run_flow"
    /\ ~last.use_defaults
    /\ auto_registration
    /\ RunCalls # <<>>
    /\ CallsNamed("register_function") = <<>>
    /\ \E i \in DOMAIN AllFuncs(tools) : ~IdStored(cfg, AllFuncs(tools)[i])

-----------------------------------------------------------------------------
(* Claims on the end of progress, under SpecPollFair.                      *)

Terminal(status) == status \in {"SUCCEEDED", "FAILED"}

\* No status was fetched after a SUCCEEDED or FAILED one
NoFetchAfterTerminal ==
    \A i \in 1..(Len(poll.fetched) - 1) : ~Terminal(poll.fetched[i])

\* progress has returned only with a SUCCEEDED or FAILED status fetched last
ReturnedOnTerminal ==
    poll.pc = "returned" =>
        poll.fetched # <<>> /\ Terminal(poll.fetched[Len(poll.fetched)])

\* C25: progress fetches no status after the first SUCCEEDED or FAILED one
\* it sees, never returns while the last fetched status is another one,
\* returns once such a status is fetched, and, the run reporting such a
\* status in the end, does not poll forever.
C25_ReturnsExactlyOnTerminal ==
    /\ [](NoFetchAfterTerminal /\ ReturnedOnTerminal)
    /\ (poll.pc = "loop" /\ Terminal(poll.status)) ~> (poll.pc = "returned")
    /\ (poll.pc = "loop") ~> (poll.pc \in {"returned", "raised"})

\* progress returned at the third fetch, the first SUCCEEDED one
C25_Witness ==
    /\ poll.pc = "returned"
    /\ poll.fetched = <<"ACTIVE", "INACTIVE", "SUCCEEDED">>

-----------------------------------------------------------------------------
(* Further claims on generic_set_modifier, under SpecSet.                  *)

IsPath(value) == IsStr(value) /\ StartsWith(value.s, "$.")

\* C26: after generic_set_modifier(item, key, value) the item holds exactly
\* one of key and key.$, whichever of them it held before; it holds key.$
\* if and only if the value written is a text starting with "$.", and the
\* plain key otherwise; a value that starts with "$." is written as it is.
C26_DualKeyConvention ==
    SetCalled =>
        LET plain == mods.mod_name
            ref == mods.mod_name \o ".$"
        IN  /\ (plain \in DOMAIN mods.result) # (ref \in DOMAIN mods.result)
            /\ ref \in DOMAIN mods.result => IsPath(mods.result[ref])
            /\ plain \in DOMAIN mods.result => ~IsPath(mods.result[plain])
            /\ IsPath(mods.mod_value) =>
                  ref \in DOMAIN mods.result /\ mods.result[ref] = mods.mod_value

\* The item held both forms of the key; a number was written under the
\* plain key and the reference form is gone
C26_Witness ==
    /\ SetCalled
    /\ mods.mod_name = "endpoint"
    /\ {"endpoint", "endpoint.$"} \subseteq DOMAIN mods.item
    /\ mods.mod_value = Number("5")
    /\ "endpoint.$" \notin DOMAIN mods.result
    /\ "endpoint" \in DOMAIN mods.result
    /\ mods.result["endpoint"] = Number("5")

-----------------------------------------------------------------------------
(* Claims on the apply phase, under SpecMod.                               *)

\* The value of a modifier is of the plainest permitted kind: a list of
\* call tasks for tasks, a text or a function for any other kind
PermittedValue(m) ==
    IF m.kind = "tasks" THEN m.value.t = "list"
    ELSE IsStr(m.value) \/ m.value.t = "func"

\* apply_modifiers was called on a graph in which the target state of every
\* directive has a Parameters block with a task list
AppliedToTaskStates ==
    /\ mods.op = "apply"
    /\ \A i \in DOMAIN mods.modifiers.items :
          /\ TargetOf(i) \in DOMAIN mods.pre
          /\ \E n \in 1..MaxTasks : HasTasks(mods.pre[TargetOf(i)], n)

\* C27: for validated modifiers, whatever the order of the kinds inside a
\* directive and whatever the permitted values, apply_modifiers on a graph
\* whose target states each have a Parameters block with a task list
\* returns without raising.
C27_ApplyNeverRaises ==
    (/\ AppliedToTaskStates
     /\ \A i \in DOMAIN mods.modifiers.items :
           \A j \in DOMAIN mods.modifiers.items[i].mods :
               PermittedValue(mods.modifiers.items[i].mods[j])) =>
        mods.exc = NoErr

\* The directive {f: {InputPath: '$.x', endpoint: 'ep-uuid'}} removed the
\* Parameters of its state and then raised KeyError on them
C27_Witness ==
    /\ AppliedToTaskStates
    /\ Len(mods.modifiers.items) = 1
    /\ mods.modifiers.items[1].mods
          = <<Modifier("InputPath", Str("$.x")), Modifier("endpoint", Str("ep-uuid"))>>
    /\ mods.exc = KeyError("Parameters")
    /\ "Parameters" \notin DOMAIN mods.flow[TargetOf(1)]
    /\ mods.flow # mods.pre

\* Directive i is the only one on its state, and its modifier j is the
\* only one of it that touches Parameters
OnlyOnParameters(i, j) ==
    /\ \A x \in DOMAIN mods.modifiers.items : x # i => TargetOf(x) # TargetOf(i)
    /\ \A y \in DOMAIN mods.modifiers.items[i].mods :
          y # j => mods.modifiers.items[i].mods[y].kind
                      \notin funcx_modifiers \cup {"InputPath"}

\* The dict holds value for key in the form the value asks for, and not in
\* the other form
HoldsResolved(d, key, value) ==
    IF IsPath(value)
    THEN /\ (key \o ".$") \in DOMAIN d /\ d[key \o ".$"] = value
         /\ key \notin DOMAIN d
    ELSE /\ key \in DOMAIN d /\ d[key] = value
         /\ (key \o ".$") \notin DOMAIN d

\* Every call task of the state of directive i holds the resolved value of
\* modifier m, and the tasks are otherwise those of before, in their order
Broadcast(i, m) ==
    \A n \in 1..MaxTasks :
        HasTasks(mods.pre[TargetOf(i)], n) =>
            /\ HasTasks(mods.flow[TargetOf(i)], n)
            /\ \A t \in 1..n :
                  LET after == TasksOf(mods.flow[TargetOf(i)])[t]
                      before == TasksOf(mods.pre[TargetOf(i)])[t]
                  IN  /\ after.t = "dict"
                      /\ HoldsResolved(after.d, m.kind, ResolveValue(tools, m.value))
                      /\ Remove(after.d, {m.kind, m.kind \o ".$"})
                           = Remove(before.d, {m.kind, m.kind \o ".$"})

\* Parameters of the state of directive i hold the resolved value of the
\* tasks modifier m as their task entry, and their other keys as before
TasksReplaced(i, m) ==
    LET after == mods.flow[TargetOf(i)]["Parameters"]
        before == mods.pre[TargetOf(i)]["Parameters"]
    IN  /\ after.t = "dict"
        /\ HoldsResolved(after.d, "tasks", ResolveValue(tools, m.value))
        /\ Remove(after.d, {"tasks", "tasks.$"}) = Remove(before.d, {"tasks", "tasks.$"})

\* C28: after apply_modifiers has applied an endpoint or payload modifier
\* to a state, every call task of the state holds the same resolved value
\* for that kind, and the number and order of the tasks are as before; a
\* tasks modifier replaces the task entry of Parameters by the resolved
\* value and leaves the other keys of Parameters as they were.
C28_BroadcastAndReplace ==
    (mods.op = "apply" /\ mods.exc = NoErr) =>
        \A i \in DOMAIN mods.modifiers.items :
            \A j \in DOMAIN mods.modifiers.items[i].mods :
                LET m == mods.modifiers.items[i].mods[j] IN
                OnlyOnParameters(i, j) =>
                    /\ m.kind \in {"endpoint", "payload"} => Broadcast(i, m)
                    /\ m.kind = "tasks" => TasksReplaced(i, m)

\* The payload of a state with two call tasks was set to the result of g:
\* both tasks hold the result path
C28_Witness ==
    /\ mods.op = "apply"
    /\ mods.exc = NoErr
    /\ Len(mods.modifiers.items) = 1
    /\ mods.modifiers.items[1].mods = <<Modifier("payload", FuncValue(Func("g", "b1")))>>
    /\ HasTasks(mods.pre[TargetOf(1)], 2)
    /\ HasTasks(mods.flow[TargetOf(1)], 2)
    /\ \A t \in 1..2 :
          Get(TasksOf(mods.flow[TargetOf(1)])[t].d, "payload.$")
              = Str("$.G.details.results")

-----------------------------------------------------------------------------
(* Claims on the stored records over the life of the client, under SpecUse. *)

\* C29: no call of get_funcx_function_ids, register_funcx_function,
\* get_flow_id, register_flow, run_flow or progress, returning or raising,
\* removes a stored id, checksum or flow_scope: every key present before a
\* step is present after it, whatever its value.
C29_NoRecordDeleted == [][DOMAIN cfg \subseteq DOMAIN cfg']_vars

\* run_flow found the stored flow gone and deployed it anew: the id was
\* overwritten, and every key of before is still stored
C29_Witness ==
    /\ last.op = "run_flow"
    /\ "flow_id" \in DOMAIN last.cfg
    /\ "flow_id" \in DOMAIN cfg
    /\ cfg["flow_id"] # last.cfg["flow_id"]
    /\ DOMAIN last.cfg \subseteq DOMAIN cfg
    /\ \E i \in DOMAIN AllFuncs(tools) : IdStored(last.cfg, AllFuncs(tools)[i])

-----------------------------------------------------------------------------
(* Claims on the remote calls of one run_flow, under SpecRun.               *)

\* The places in the calls of the last operation of the calls that satisfy P
Places(P(_)) == {i \in DOMAIN last.calls : P(last.calls[i])}

IsRunStart(c) == c.name = "run_flow"

IsForcedLogin(c) == c.name = "login" /\ c.force = TRUE

IsPlainLogin(c) == c.name = "login" /\ c.force # TRUE

\* C30: whatever the services answer, one run_flow makes at most two
\* run-start calls and at most two logins, of which at most one is the login
\* for the scope a flow registration added (it follows a deployment and
\* comes before any run-start call) and at most one is the forced login of
\* the scope-mismatch retry; and a second run-start call comes only after a
\* forced login made since the first.
C30_AtMostTwoStartsAndLogins ==
    last.op = "run_flow" =>
        /\ Cardinality(Places(IsRunStart)) <= 2
        /\ Len(LoginCalls) <= 2
        /\ Cardinality(Places(IsPlainLogin)) <= 1
        /\ Cardinality(Places(IsForcedLogin)) <= 1
        /\ \A i \in Places(IsPlainLogin) :
              /\ \A j \in Places(IsRunStart) : i < j
              /\ \E j \in 1..(i - 1) :
                    last.calls[j].name = "deploy_flow" /\ last.calls[j].ok
        /\ \A i \in Places(IsRunStart), j \in Places(IsRunStart) :
              i < j => \E k \in Places(IsForcedLogin) : i < k /\ k < j

\* a run_flow that deployed the flow, logged in for its scope, met a scope
\* mismatch on the first run-start call, forced a login and started again:
\* two logins and two run-start calls
C30_Witness ==
    /\ last.op = "run_flow"
    /\ Len(RunCalls) = 2
    /\ ScopeMismatch(RunCalls[1].err)
    /\ Len(LoginCalls) = 2
    /\ LoginCalls[1].force # TRUE
    /\ LoginCalls[2].force = TRUE
    /\ OkCalls("deploy_flow") # <<>>

-----------------------------------------------------------------------------
(* Claims on repeated function resolution, under Spec.                      *)

\* get_funcx_function_ids has just returned with auto_registration True
FunctionsJustResolved ==
    last.op = "get_funcx_function_ids" /\ auto_registration /\ LastReturned

\* The step is a call of get_funcx_function_ids that follows a returned one
ResolvedAgain == FunctionsJustResolved /\ last'.op = "get_funcx_function_ids"

\* C31: a call of get_funcx_function_ids that immediately follows one that
\* returned with auto_registration True, on the same tools, makes no
\* register_function call and returns the mapping the first returned, for
\* every tool list, lists with two different functions of one name included.
C31_ResolutionIdempotent ==
    [][ResolvedAgain =>
          /\ last'.calls = <<>>
          /\ last'.exc = NoErr
          /\ last'.ids = last.ids]_vars

\* a call on tools holding two different functions of one name that began
\* on the record a returned call leaves, valid for the function resolved
\* last, and registered every function anew under a new id
C31_Witness ==
    /\ FunctionsJustResolved
    /\ ~DistinctNames
    /\ \E i \in DOMAIN AllFuncs(tools), j \in DOMAIN AllFuncs(tools) :
          /\ i < j
          /\ AllFuncs(tools)[i].name = AllFuncs(tools)[j].name
          /\ AllFuncs(tools)[i].body # AllFuncs(tools)[j].body
    /\ LET funcs == AllFuncs(tools) IN
       /\ IdStored(last.cfg, funcs[Len(funcs)])
       /\ ChecksumEqual(last.cfg, funcs[Len(funcs)])
    /\ Len(CallsNamed("register_function")) = Len(AllFuncs(tools))
    /\ Get(cfg, "f_funcx_id") # Get(last.cfg, "f_funcx_id")

=============================================================================
